---- MODULE Spec2Model ----
(***************************************************************************)
(* Compliance audit and key-lifecycle core of the Unified Health Record    *)
(* Hub.                                                                    *)
(*                                                                         *)
(*   AuditLog              src/backend/models/AuditLog.js                  *)
(*   KeyManagementService  src/unnamed/part_016, lines 1-497               *)
(*   AesService (GCM)      src/unnamed/part_016, lines 498-779             *)
(*   AesService (CBC)      src/backend/aesService.js                       *)
(*                                                                         *)
(* Every async method is cut at its awaits: one action per stretch of      *)
(* code that runs without yielding.  Collaborators that are not part of    *)
(* the repository (database, anchor, FHIR server, key vault, websocket     *)
(* library, node's crypto) are environment: their answers are inputs.      *)
(***************************************************************************)
EXTENDS Integers, Sequences, FiniteSets, TLC

\* ------------------------------------------------------------------ bounds
MaxEntries == 5       \* log() calls per run
MaxStartupCalls == 3  \* log() calls under SpecStartup
MaxInFlight == 2      \* log() calls running at once
MaxTicks == 2         \* clock advances per run
TickMs == 600001      \* milliseconds per clock advance
NumClients == 2       \* websocket clients
MaxKeys == 2          \* keys generated per run
MaxKmsCalls == 2      \* calls of the key service running at once
MaxKmsTicks == 1      \* clock advances per run of the key service
MaxAesKeys == 2       \* keys registered with the GCM service per run
MaxAesCalls == 1      \* encrypt/decrypt calls running at once
MaxAesRotations == 1  \* rotateKey calls of the GCM service running at once
MaxPlainLen == 2      \* characters of a plaintext
MaxCbcLen == 4        \* bytes of a plaintext of the CBC service
MaxVerifyEntries == 2 \* entries in the table while verifyEntry is exercised
MaxVerifyCalls == 1   \* verifyEntry calls in flight
MaxHubEntries == 2    \* log() calls per run of the subscriber hub
MaxSubscribes == 2    \* SUBSCRIBE messages counted per socket
MaxEmergencyCalls == 1 \* emergencyKeyOverride calls per run
MaxMemKeys == 3       \* keys the in-memory key service draws per run

\* -------------------------------------------------------- program constants
BatchThreshold == 5          \* AuditLog.js:72  batch.length >= 5
BatchMaxAgeMs == 600000      \* AuditLog.js:72  Date.now() - batch[0].timestamp > 600000
BatchLimit == 100            \* AuditLog.js:182 limit: 100
GenerateCacheMs == 300000    \* part_016:56   5 * 60 * 1000
RefetchCacheMs == 180000     \* part_016:172  3 * 60 * 1000
ResourceChunkLen == 32768    \* part_016:672, 581  chunkSize: 32, times 1024
EmergencyMinLength == 20     \* part_016:452  justification.length > 20

Users == {"dr.smith", "nurse.kim"}
UuidSpace == 1..MaxEntries
Clients == 1..NumClients
\* ws.filters: undefined until the first SUBSCRIBE, then the message's filters
NoFilter == [defined |-> FALSE, fields |-> {}]
\* a socket that has sent no SUBSCRIBE yet
NeverSubscribed == [count |-> 0, filters |-> NoFilter]
\* One field of a filter object: a scalar (values holds it) or a list.
Eq(key, v) == [key |-> key, isList |-> FALSE, values |-> {v}]
OneOf(key, vs) == [key |-> key, isList |-> TRUE, values |-> vs]
FilterSpace ==
  { NoFilter } \cup
  { [defined |-> TRUE, fields |-> f] :
      f \in { {Eq("userId", "dr.smith")},
              {OneOf("userId", {"nurse.kim"})},
              {Eq("userId", "nurse.kim"), Eq("action", "WRITE")} } }
MessageTypes == {"SUBSCRIBE", "PING"}

VARIABLES
  \* ---- AuditLog
  anchoringEnabled, \* process.env.BLOCKCHAIN_AUDIT === 'true'
  anchorUp,         \* whether blockchain.submitAuditBatch answers
  now,              \* Date.now() and the database's CURRENT_TIMESTAMP, in ms
  entries,          \* the LogEntry table, in insertion order
  calls,            \* calls[i]: the log() call that inserted entries[i]
  submitted,        \* argument lists handed to blockchain.submitAuditBatch
  txCount,          \* transactions the anchor has issued
  wssClients,       \* wss.clients, in insertion order
  readyState,       \* readyState[c] of each client socket
  filters,          \* ws.filters of each client socket
  lastNotify,       \* the latest run of _notifyClients: entry, clients sent to
  subscribed,       \* by client: SUBSCRIBE messages it has sent, and the last one's filters
  \* ---- KeyManagementService
  keysGenerated,    \* key ids handed out by crypto.randomUUID so far
  keyCache,         \* this.keyCache: keyId -> {privateKey, expiresAt}
  devices,          \* the FHIR server's Device resources, by key id
  handed,           \* what the service has passed to blockchain, audit, FHIR
  kmsCalls,         \* calls of the service that are waiting at an await
  kmsLast,          \* the call that ended last, and how
  emergency,        \* emergencyKeyOverride: calls, retrievals, records, returns
  \* ---- AesService (aes-256-gcm, part_016)
  keyRegistry,      \* this.keyRegistry: keyId -> key record
  aesCalls,         \* encrypt/decrypt calls waiting at an await
  aesEnvelope,      \* what the latest successful encrypt returned, and from what
  aesLast,          \* the encrypt/decrypt call that ended last, and how
  \* ---- AesService (aes-256-cbc, backend/aesService.js)
  cbcEnvelope,      \* {iv, encryptedData} in the caller's hands, and its origin
  cbcLast,          \* what decrypt made of the envelope held, once called
  \* ---- AuditLog.verifyEntry
  verifyCalls,      \* verifyEntry calls that are waiting at an await
  verifyLast,       \* the verifyEntry call that ended last, and how
  \* ---- KeyManagementService (in memory, backend/keyManagement.js)
  memKeys,          \* this.keys: keyId -> key (0: no such property)
  memGenerated,     \* keys drawn by generateKey so far
  memReturned,      \* the keyIds rotateKey calls have returned
  memLast           \* the rotateKey call that ended last

auditVars == <<anchoringEnabled, anchorUp, now, entries, calls, submitted,
               txCount, wssClients, readyState, filters, lastNotify,
               subscribed>>

kmsVars == <<keysGenerated, keyCache, devices, handed, kmsCalls, kmsLast,
             emergency>>

aesVars == <<keyRegistry, aesCalls, aesEnvelope, aesLast>>
cbcVars == <<cbcEnvelope, cbcLast>>

verifyVars == <<verifyCalls, verifyLast>>

memVars == <<memKeys, memGenerated, memReturned, memLast>>

nonAuditVars == <<verifyVars, kmsVars, aesVars, cbcVars, memVars>>

vars == <<auditVars, verifyVars, kmsVars, aesVars, cbcVars, memVars>>

Min(a, b) == IF a < b THEN a ELSE b

\* ================================================================ AuditLog

\* An assignment to a binding declared with const raises TypeError when it
\* is executed.  hashes is declared const (line 166) and assigned (line 173).
HashesIsLet == FALSE
HashesIsConst == TRUE

Sha256(x) == <<"sha256", x>>

\* `${entry.timestamp}`: Date.prototype.toString, which prints the date to
\* the second and drops the milliseconds.
DateToString(t) == t \div 1000

\* resourceType of a row created without metadata.resourceType (null)
NoResourceType == "null"

_hashEntry(e) ==
  Sha256(<<e.userId, e.action, e.resourceType, DateToString(e.timestamp)>>)

\* One pass of the for loop of _calculateMerkleRoot: pairs, the odd one
\* out paired with itself (hashes[i+1] || hashes[i]).
NewLevel(hashes) ==
  [k \in 1..((Len(hashes) + 1) \div 2) |->
     LET l == hashes[2 * k - 1]
         r == IF 2 * k <= Len(hashes) THEN hashes[2 * k] ELSE l
     IN Sha256(<<l, r>>)]

RECURSIVE MerkleLoop(_)
MerkleLoop(hashes) ==
  IF Len(hashes) > 1
  THEN IF HashesIsConst
       THEN [ok |-> FALSE, error |-> "TypeError"]
       ELSE MerkleLoop(NewLevel(hashes))
  ELSE [ok |-> TRUE, root |-> hashes[1]]

\* batch: the rows findAll returned, as they were when it read them
_calculateMerkleRoot(batch) ==
  MerkleLoop([k \in 1..Len(batch) |-> _hashEntry(batch[k])])

IsUnverified(e) == ~e.verified

\* findAll({where: {verified: false}, order: timestamp ASC, limit: 100}).
\* Timestamps never decrease along the table, so timestamp order is
\* insertion order.
_getUnverifiedBatch ==
  LET all == SelectSeq(entries, IsUnverified)
  IN SubSeq(all, 1, Min(Len(all), BatchLimit))

BatchIds(batch) == [k \in 1..Len(batch) |-> batch[k].id]

Running == {"read", "check", "submit", "update", "updated"}
InFlight == {i \in 1..Len(calls) : calls[i].pc \in Running}

\* The primary key: an insert whose id is already in the table is refused.
PrimaryKeyAccepts(id) == \A i \in 1..Len(entries) : entries[i].id # id

\* ws.filters against an entry: every filter field equals the entry's
\* field or is a list that holds it.
_matchesFilters(entry, f) ==
  \A x \in f :
    \/ (~x.isList /\ {entry[x.key]} = x.values)
    \/ (x.isList /\ entry[x.key] \in x.values)

Wants(c, entry) ==
  /\ readyState[c] = "OPEN"
  /\ (~filters[c].defined \/ _matchesFilters(entry, filters[c].fields))

\* _notifyClients: wss.clients.forEach in insertion order; failing is the
\* set of clients whose send() throws.  The first throw ends the loop
\* (failed: the client whose send threw).
RECURSIVE NotifyFrom(_, _, _)
NotifyFrom(k, entry, failing) ==
  IF k > Len(wssClients) THEN [sent |-> {}, threw |-> FALSE, failed |-> {}]
  ELSE LET c == wssClients[k] IN
       IF ~Wants(c, entry) THEN NotifyFrom(k + 1, entry, failing)
       ELSE IF c \in failing
            THEN [sent |-> {}, threw |-> TRUE, failed |-> {c}]
       ELSE LET rest == NotifyFrom(k + 1, entry, failing)
            IN [sent |-> {c} \cup rest.sent, threw |-> rest.threw,
                failed |-> rest.failed]

\* i: the log() call; the entry is the instance LogEntry.create gave it
_notifyClients(i, failing) == NotifyFrom(1, calls[i].entry, failing)

\* The tail of log() once LogEntry.create has resolved: notify, return.
FinishLog(i, ents, failing) ==
  LET n == _notifyClients(i, failing) IN
  /\ lastNotify' = [entry |-> i, sent |-> n.sent, threw |-> n.threw,
                    failed |-> n.failed]
  /\ calls' = [calls EXCEPT ![i].pc = IF n.threw THEN "SendError" ELSE "ok"]
  /\ entries' = ents

\* log(): LogEntry.create inserts the row, then runs afterCreate.
LogCreate(u, id) ==
  /\ Len(calls) < MaxEntries
  /\ Cardinality(InFlight) < MaxInFlight
  /\ IF PrimaryKeyAccepts(id)
     THEN LET entry == [id |-> id, userId |-> u, action |-> "READ",
                        resourceType |-> NoResourceType, timestamp |-> now,
                        verified |-> FALSE, blockchainTxId |-> 0]
          IN /\ entries' = Append(entries, entry)
             /\ calls' = Append(calls, [pc |-> "read", entry |-> entry,
                                        batch |-> <<>>, tx |-> 0])
     ELSE UNCHANGED <<entries, calls>>
  /\ UNCHANGED nonAuditVars
  /\ UNCHANGED <<anchoringEnabled, anchorUp, now, submitted, txCount,
                 wssClients, readyState, filters, lastNotify, subscribed>>

\* _anchorToBlockchain up to the answer of _getUnverifiedBatch.
HookRead(i, failing) ==
  /\ i \in 1..Len(calls) /\ calls[i].pc = "read"
  /\ IF anchoringEnabled
     THEN /\ calls' = [calls EXCEPT ![i].pc = "check",
                                    ![i].batch = _getUnverifiedBatch]
          /\ UNCHANGED <<entries, lastNotify>>
     ELSE FinishLog(i, entries, failing)
  /\ UNCHANGED nonAuditVars
  /\ UNCHANGED <<anchoringEnabled, anchorUp, now, submitted, txCount,
                 wssClients, readyState, filters, subscribed>>

BatchIsDue(batch) ==
  \/ Len(batch) >= BatchThreshold
  \/ (Len(batch) > 0 /\ now - batch[1].timestamp > BatchMaxAgeMs)

\* The threshold test, the Merkle root and the call of submitAuditBatch.
HookCheck(i, failing) ==
  /\ i \in 1..Len(calls) /\ calls[i].pc = "check"
  /\ LET batch == calls[i].batch IN
     IF BatchIsDue(batch)
     THEN LET m == _calculateMerkleRoot(batch) IN
          IF m.ok
          THEN /\ submitted' = Append(submitted,
                      [merkleRoot |-> m.root, entries |-> BatchIds(batch),
                       by |-> i])
               /\ calls' = [calls EXCEPT ![i].pc = "submit"]
               /\ UNCHANGED <<entries, lastNotify>>
          ELSE /\ calls' = [calls EXCEPT ![i].pc = m.error]
               /\ UNCHANGED <<submitted, entries, lastNotify>>
     ELSE /\ FinishLog(i, entries, failing)
          /\ UNCHANGED submitted
  /\ UNCHANGED nonAuditVars
  /\ UNCHANGED <<anchoringEnabled, anchorUp, now, txCount,
                 wssClients, readyState, filters, subscribed>>

\* submitAuditBatch settles: a transaction, or the anchor's error, which
\* nothing between it and the caller of log() catches.
\* (AnchorErrorSwallowed: the hook as it would run were the error caught
\* and ignored, so that the update follows with no transaction.)
AnchorErrorSwallowed(i) ==
  /\ i \in 1..Len(calls) /\ calls[i].pc = "submit"
  /\ IF anchorUp
     THEN /\ txCount' = txCount + 1
          /\ calls' = [calls EXCEPT ![i].pc = "update", ![i].tx = txCount + 1]
     ELSE /\ calls' = [calls EXCEPT ![i].pc = "update"]
          /\ UNCHANGED txCount
  /\ UNCHANGED nonAuditVars
  /\ UNCHANGED <<anchoringEnabled, anchorUp, now, entries, submitted,
                 wssClients, readyState, filters, lastNotify, subscribed>>

AnchorRespond(i) ==
  /\ i \in 1..Len(calls) /\ calls[i].pc = "submit"
  /\ IF anchorUp
     THEN /\ txCount' = txCount + 1
          /\ calls' = [calls EXCEPT ![i].pc = "update", ![i].tx = txCount + 1]
     ELSE /\ calls' = [calls EXCEPT ![i].pc = "AnchorError"]
          /\ UNCHANGED txCount
  /\ UNCHANGED nonAuditVars
  /\ UNCHANGED <<anchoringEnabled, anchorUp, now, entries, submitted,
                 wssClients, readyState, filters, lastNotify, subscribed>>

\* LogEntry.update({blockchainTxId, verified: true}, {where: {id: [...]}})
MarkEveryRow(ids, tx) ==
  [j \in 1..Len(entries) |->
     [entries[j] EXCEPT !.verified = TRUE, !.blockchainTxId = tx]]

MarkVerified(ids, tx) ==
  [j \in 1..Len(entries) |->
     IF \E k \in 1..Len(ids) : ids[k] = entries[j].id
     THEN [entries[j] EXCEPT !.verified = TRUE, !.blockchainTxId = tx]
     ELSE entries[j]]

\* The database executes the UPDATE the hook is awaiting (line 80): the
\* rows are marked while log() is still suspended.
UpdateApply(i) ==
  /\ i \in 1..Len(calls) /\ calls[i].pc = "update"
  /\ entries' = MarkVerified(BatchIds(calls[i].batch), calls[i].tx)
  /\ calls' = [calls EXCEPT ![i].pc = "updated"]
  /\ UNCHANGED nonAuditVars
  /\ UNCHANGED <<anchoringEnabled, anchorUp, now, submitted, txCount,
                 wssClients, readyState, filters, lastNotify, subscribed>>

\* The answer of the UPDATE reaches the hook: create resolves, log()
\* notifies and returns.
HookUpdate(i, failing) ==
  /\ i \in 1..Len(calls) /\ calls[i].pc = "updated"
  /\ FinishLog(i, entries, failing)
  /\ UNCHANGED nonAuditVars
  /\ UNCHANGED <<anchoringEnabled, anchorUp, now, submitted, txCount,
                 wssClients, readyState, filters, subscribed>>

\* ------------------------------------------------------------ verifyEntry
\* findByPk: the row with this id, if any
FindByPk(id) == {j \in 1..Len(entries) : entries[j].id = id}

\* if (entry.blockchainTxId): null until the entry is anchored
IsAnchoredAlways(e) == TRUE
IsAnchored(e) == e.blockchainTxId # 0

NotAsked == [asked |-> FALSE, tx |-> 0, hash |-> <<>>]

NoVerify == [id |-> 0, pc |-> "none", row |-> <<>>, found |-> FALSE, tx |-> 0,
             hash |-> <<>>, request |-> NotAsked, anchorUp |-> FALSE,
             answer |-> FALSE, outcome |-> "none"]

\* verifyEntry(entryId) up to the await of findByPk: the query is sent
VerifyBegin(id) ==
  /\ Cardinality(verifyCalls) < MaxVerifyCalls
  /\ verifyCalls' = verifyCalls \cup {[NoVerify EXCEPT !.id = id, !.pc = "find"]}
  /\ UNCHANGED verifyLast
  /\ UNCHANGED <<auditVars, kmsVars, aesVars, cbcVars, memVars>>

\* the database executes findByPk: the answer is the row as it is now (no
\* row: null), and reaches verifyEntry in a later turn
VerifyRead(c) ==
  /\ c \in verifyCalls /\ c.pc = "find"
  /\ verifyCalls' = (verifyCalls \ {c}) \cup
       {[c EXCEPT !.pc = "row",
                  !.row = IF FindByPk(c.id) = {} THEN <<>>
                          ELSE <<entries[CHOOSE j \in FindByPk(c.id) : TRUE]>>]}
  /\ UNCHANGED verifyLast
  /\ UNCHANGED <<auditVars, kmsVars, aesVars, cbcVars, memVars>>

\* the answer of findByPk arrives: 'Entry not found', false for a row read
\* without blockchainTxId, or blockchain.verifyTransaction(txId,
\* _hashEntry(entry)) of the row as it was read
VerifyFind(c) ==
  /\ c \in verifyCalls /\ c.pc = "row"
  /\ IF c.row = <<>>
     THEN /\ verifyCalls' = verifyCalls \ {c}
          /\ verifyLast' = [c EXCEPT !.outcome = "Entry not found"]
     ELSE LET entry == c.row[1]
              d == [c EXCEPT !.found = TRUE, !.tx = entry.blockchainTxId,
                             !.hash = _hashEntry(entry)]
          IN IF IsAnchored(entry)
             THEN /\ verifyCalls' = (verifyCalls \ {c}) \cup
                       {[d EXCEPT !.pc = "anchor",
                                  !.request =
                                    [asked |-> TRUE, tx |-> entry.blockchainTxId,
                                     hash |-> _hashEntry(entry)]]}
                  /\ UNCHANGED verifyLast
             ELSE /\ verifyCalls' = verifyCalls \ {c}
                  /\ verifyLast' = [d EXCEPT !.outcome = "false"]
  /\ UNCHANGED <<auditVars, kmsVars, aesVars, cbcVars, memVars>>

\* verifyTransaction settles: the anchor's answer is returned as it is, an
\* unreachable anchor rejects and verifyEntry rejects with it
VerifyAnswer(c, answer) ==
  /\ c \in verifyCalls /\ c.pc = "anchor"
  /\ verifyCalls' = verifyCalls \ {c}
  /\ verifyLast' = [c EXCEPT !.anchorUp = anchorUp, !.answer = answer,
                             !.outcome = IF ~anchorUp THEN "AnchorError"
                                         ELSE IF answer THEN "true"
                                         ELSE "false"]
  /\ UNCHANGED <<auditVars, kmsVars, aesVars, cbcVars, memVars>>

InitVerifyIdle ==
  /\ verifyCalls = {}
  /\ verifyLast = NoVerify

\* ------------------------------------------------------------ environment
Tick ==
  /\ now < MaxTicks * TickMs
  /\ now' = now + TickMs
  /\ UNCHANGED nonAuditVars
  /\ UNCHANGED <<anchoringEnabled, anchorUp, entries, calls, submitted,
                 txCount, wssClients, readyState, filters, lastNotify, subscribed>>

AnchorFlip ==
  /\ anchorUp' = ~anchorUp
  /\ UNCHANGED nonAuditVars
  /\ UNCHANGED <<anchoringEnabled, now, entries, calls, submitted,
                 txCount, wssClients, readyState, filters, lastNotify, subscribed>>

\* ==================================================== KeyManagementService

KeyIds == 1..MaxKeys

\* The fields of the object _parseKeyMetadata returns (lines 392-407).
ParsedFields == {"deviceId", "keyId", "keyType", "owner", "publicKey",
                 "quantumFingerprint", "rotationPolicy", "securityTags",
                 "status"}

\* The items _storeKeyMetadata writes into the key-metadata extension
\* (lines 324-328).
StoredItems == {"quantumFingerprint", "rotationPolicy", "publicKey"}

\* _parseKeyMetadata: the status item's value, 'active' when there is none.
ParsedStatus(device) ==
  IF "status" \in device.items THEN device.status ELSE "active"

\* null: no Device found, or no answer yet
NoMeta == [found |-> FALSE, status |-> "", owner |-> "", keyType |-> ""]

\* What the FHIR server answers to the search of _getKeyMetadata when it
\* runs it: null when it finds no Device, else what _parseKeyMetadata makes
\* of the Device found.
_getKeyMetadata(k) ==
  IF devices[k].stored
  THEN [found |-> TRUE, status |-> ParsedStatus(devices[k]),
        owner |-> devices[k].owner, keyType |-> devices[k].keyType]
  ELSE NoMeta

\* _updateKeyMetadata(keyId, updates), given what its own _getKeyMetadata
\* got: 'Key not found' on null; else it maps over current.extensions, a
\* property the object _parseKeyMetadata returns does not have, and throws
\* a TypeError.  fhir.update (line 384) is not reached.
_updateKeyMetadata(current) ==
  IF ~current.found THEN "Key not found"
  ELSE CASE "extensions" \notin ParsedFields -> "TypeError"

KmsEnd(op, k, result) ==
  kmsLast' = [op |-> op, keyId |-> k, result |-> result]

\* Calls in flight are told apart by the promise each returned: a call
\* takes the first number no call in flight holds.
NewCall ==
  CHOOSE n \in 1..MaxKmsCalls :
    /\ \A c \in kmsCalls : c.call # n
    /\ \A m \in 1..(n - 1) : \E c \in kmsCalls : c.call = m

\* generateKey calls that have not drawn their key id yet
AwaitingMaterial == {c \in kmsCalls : c.pc = "material"}

\* What generateKey hands to blockchain.submitKeyGeneration (keyMeta, lines
\* 36-47) and to audit.log (lines 59-64), what _storeKeyMetadata puts into
\* the Device (lines 305-329), and what a keyCache entry holds (lines
\* 52-55).
KeyMetaFields == {"keyId", "keyType", "owner", "publicKey",
                  "quantumFingerprint", "generatedAt", "rotationPolicy",
                  "status", "usage", "securityTags"}
KeyGeneratedAuditFields == {"keyId", "keyType", "owner", "txHash"}
DeviceFields == {"resourceType", "identifier", "type", "owner", "meta"}
                  \cup StoredItems
CacheEntryFields == {"privateKey", "expiresAt"}

\* What emergencyKeyOverride hands to audit.logEmergencyAccess (lines
\* 290-295) and to blockchain.recordEmergencyAccess (line 298).
EmergencyAuditFields == {"keyId", "action", "justification", "accessedBy"}
EmergencyChainFields == {"keyId", "justification"}

\* What defineRotationPolicy hands to fhir.create (planDefinition, lines
\* 188-218) and to audit.log (lines 222-225).
PlanDefinitionFields == {"resourceType", "status", "title", "type", "action"}
PolicyDefinedAuditFields == {"policy", "version"}

\* a record leaves the service for one of its stores
Hand(sink, fields) == handed' = handed \cup {[sink |-> sink, fields |-> fields]}

\* The answer of a fhir.search is made when the server runs the search,
\* and reaches the caller later: the continuation works on what the server
\* found then.  "search" is the search of a direct _getKeyMetadata,
\* "search2" the one inside _updateKeyMetadata.
FhirSearch(c) ==
  /\ c \in kmsCalls /\ c.pc \in {"search", "search2"}
  /\ kmsCalls' = (kmsCalls \ {c}) \cup
       {[c EXCEPT !.pc = IF c.pc = "search" THEN "meta" ELSE "update",
                  !.meta = _getKeyMetadata(c.keyId)]}
  /\ UNCHANGED <<keysGenerated, keyCache, devices, handed, kmsLast, emergency>>
  /\ UNCHANGED <<auditVars, verifyVars, aesVars, cbcVars, memVars>>

\* generateKey is called: up to the await of keyVault.generateKeyMaterial
GenBegin(keyType, owner) ==
  /\ keysGenerated + Cardinality(AwaitingMaterial) < MaxKeys
  /\ Cardinality(kmsCalls) < MaxKmsCalls
  /\ kmsCalls' = kmsCalls \cup
       {[call |-> NewCall, op |-> "generateKey", keyId |-> 0,
         pc |-> "material", keyType |-> keyType, owner |-> owner]}
  /\ UNCHANGED <<keysGenerated, keyCache, devices, handed, kmsLast, emergency>>
  /\ UNCHANGED <<auditVars, verifyVars, aesVars, cbcVars, memVars>>

\* keyVault.generateKeyMaterial settles: the key id is drawn (randomUUID)
\* and keyMeta goes to blockchain.submitKeyGeneration, or generateKey
\* rejects with the vault's error
GenVault(c, ok) ==
  /\ c \in kmsCalls /\ c.op = "generateKey" /\ c.pc = "material"
  /\ IF ok
     THEN /\ keysGenerated' = keysGenerated + 1
          /\ kmsCalls' = (kmsCalls \ {c}) \cup
               {[c EXCEPT !.pc = "record", !.keyId = keysGenerated + 1]}
          /\ Hand("blockchain", KeyMetaFields)
          /\ UNCHANGED kmsLast
     ELSE /\ kmsCalls' = kmsCalls \ {c}
          /\ KmsEnd("generateKey", 0, "VaultError")
          /\ UNCHANGED <<keysGenerated, handed>>
  /\ UNCHANGED <<keyCache, devices, emergency>>
  /\ UNCHANGED <<auditVars, verifyVars, aesVars, cbcVars, memVars>>

\* blockchain.submitKeyGeneration settles: the private key is put into the
\* cache and audit.log is called, or generateKey rejects with nothing cached
GenChain(c, ok) ==
  /\ c \in kmsCalls /\ c.op = "generateKey" /\ c.pc = "record"
  /\ IF ok
     THEN /\ keyCache' = [keyCache EXCEPT ![c.keyId] =
                 [has |-> TRUE, expiresAt |-> now + GenerateCacheMs]]
          /\ kmsCalls' = (kmsCalls \ {c}) \cup {[c EXCEPT !.pc = "audit"]}
          /\ Hand("audit", KeyGeneratedAuditFields)
          /\ UNCHANGED kmsLast
     ELSE /\ kmsCalls' = kmsCalls \ {c}
          /\ KmsEnd("generateKey", c.keyId, "ChainError")
          /\ UNCHANGED <<keyCache, handed>>
  /\ UNCHANGED <<keysGenerated, devices, emergency>>
  /\ UNCHANGED <<auditVars, verifyVars, aesVars, cbcVars, memVars>>

\* audit.log('KEY_GENERATED', ...) settles: _storeKeyMetadata sends the
\* Device to fhir.create, or generateKey rejects
GenAudit(c, ok) ==
  /\ c \in kmsCalls /\ c.op = "generateKey" /\ c.pc = "audit"
  /\ IF ok
     THEN /\ kmsCalls' = (kmsCalls \ {c}) \cup {[c EXCEPT !.pc = "store"]}
          /\ Hand("fhir", DeviceFields)
          /\ UNCHANGED kmsLast
     ELSE /\ kmsCalls' = kmsCalls \ {c}
          /\ KmsEnd("generateKey", c.keyId, "AuditError")
          /\ UNCHANGED handed
  /\ UNCHANGED <<keysGenerated, keyCache, devices, emergency>>
  /\ UNCHANGED <<auditVars, verifyVars, aesVars, cbcVars, memVars>>

\* _storeKeyMetadata: the FHIR server executes fhir.create and the Device
\* is there while generateKey is still awaiting the answer, or the create
\* fails and generateKey rejects
GenStore(c, ok) ==
  /\ c \in kmsCalls /\ c.op = "generateKey" /\ c.pc = "store"
  /\ IF ok
     THEN /\ devices' = [devices EXCEPT ![c.keyId] =
                 [stored |-> TRUE, keyType |-> c.keyType, owner |-> c.owner,
                  items |-> StoredItems, status |-> "none",
                  replacedBy |-> 0]]
          /\ kmsCalls' = (kmsCalls \ {c}) \cup {[c EXCEPT !.pc = "stored"]}
          /\ UNCHANGED kmsLast
     ELSE /\ kmsCalls' = kmsCalls \ {c}
          /\ UNCHANGED devices
          /\ KmsEnd("generateKey", c.keyId, "FhirError")
  /\ UNCHANGED <<keysGenerated, keyCache, handed, emergency>>
  /\ UNCHANGED <<auditVars, verifyVars, aesVars, cbcVars, memVars>>

\* the answer of fhir.create arrives: generateKey returns {keyId, publicKey,
\* meta}
GenReturn(c) ==
  /\ c \in kmsCalls /\ c.op = "generateKey" /\ c.pc = "stored"
  /\ kmsCalls' = kmsCalls \ {c}
  /\ KmsEnd("generateKey", c.keyId, "ok")
  /\ UNCHANGED <<keysGenerated, keyCache, devices, handed, emergency>>
  /\ UNCHANGED <<auditVars, verifyVars, aesVars, cbcVars, memVars>>

\* revokeKey is called: up to the await of its own _getKeyMetadata
RevokeRead(k) ==
  /\ Cardinality(kmsCalls) < MaxKmsCalls
  /\ kmsCalls' = kmsCalls \cup
       {[call |-> NewCall, op |-> "revokeKey", keyId |-> k, pc |-> "search",
         meta |-> NoMeta]}
  /\ UNCHANGED <<keysGenerated, keyCache, devices, handed, kmsLast, emergency>>
  /\ UNCHANGED <<auditVars, verifyVars, aesVars, cbcVars, memVars>>

\* revokeKey: keyMeta arrives and is not looked at; _updateKeyMetadata is
\* called and sends its own search
RevokeMeta(c) ==
  /\ c \in kmsCalls /\ c.op = "revokeKey" /\ c.pc = "meta"
  /\ kmsCalls' = (kmsCalls \ {c}) \cup
       {[c EXCEPT !.pc = "search2", !.meta = NoMeta]}
  /\ UNCHANGED <<keysGenerated, keyCache, devices, handed, kmsLast, emergency>>
  /\ UNCHANGED <<auditVars, verifyVars, aesVars, cbcVars, memVars>>

\* revokeKey: the answer of the search inside _updateKeyMetadata arrives
\* and _updateKeyMetadata throws, so revokeKey rejects.  Lines 115-126
\* (blockchain.revokeKey, keyCache.delete, audit.log, return true) follow
\* a resolved _updateKeyMetadata only.
RevokeUpdate(c) ==
  /\ c \in kmsCalls /\ c.op = "revokeKey" /\ c.pc = "update"
  /\ kmsCalls' = kmsCalls \ {c}
  /\ KmsEnd("revokeKey", c.keyId, _updateKeyMetadata(c.meta))
  /\ UNCHANGED <<keysGenerated, keyCache, devices, handed, emergency>>
  /\ UNCHANGED <<auditVars, verifyVars, aesVars, cbcVars, memVars>>

\* rotateKey is called: up to the await of its _getKeyMetadata
RotateBegin(k) ==
  /\ Cardinality(kmsCalls) < MaxKmsCalls
  /\ kmsCalls' = kmsCalls \cup
       {[call |-> NewCall, op |-> "rotateKey", keyId |-> k, pc |-> "search",
         meta |-> NoMeta, oldKey |-> NoMeta, newKey |-> 0]}
  /\ UNCHANGED <<keysGenerated, keyCache, devices, handed, kmsLast, emergency>>
  /\ UNCHANGED <<auditVars, verifyVars, aesVars, cbcVars, memVars>>

\* if (!oldKey) throw new Error('Key not found')
OldKeyUnchecked(oldKey) == TRUE
OldKeyFound(oldKey) == oldKey.found

\* rotateKey: the metadata arrives and is kept as oldKey; 'Key not found',
\* or generateKey is called with the old key's type and owner and runs up
\* to the await of keyVault.generateKeyMaterial
RotateMeta(c) ==
  /\ c \in kmsCalls /\ c.op = "rotateKey" /\ c.pc = "meta"
  /\ LET oldKey == c.meta IN
     IF ~OldKeyFound(oldKey)
     THEN /\ kmsCalls' = kmsCalls \ {c}
          /\ KmsEnd("rotateKey", c.keyId, "Key not found")
     ELSE /\ keysGenerated + Cardinality(AwaitingMaterial) < MaxKeys
          /\ kmsCalls' = (kmsCalls \ {c}) \cup
               {[c EXCEPT !.pc = "material", !.oldKey = oldKey]}
          /\ UNCHANGED kmsLast
  /\ UNCHANGED <<keysGenerated, keyCache, devices, handed, emergency>>
  /\ UNCHANGED <<auditVars, verifyVars, aesVars, cbcVars, memVars>>

\* rotateKey, inside generateKey: keyVault.generateKeyMaterial settles; the
\* successor's id is drawn and keyMeta goes to the blockchain, or rotateKey
\* rejects with the vault's error
RotateVault(c, ok) ==
  /\ c \in kmsCalls /\ c.op = "rotateKey" /\ c.pc = "material"
  /\ IF ok
     THEN /\ keysGenerated' = keysGenerated + 1
          /\ kmsCalls' = (kmsCalls \ {c}) \cup
               {[c EXCEPT !.pc = "record", !.newKey = keysGenerated + 1]}
          /\ Hand("blockchain", KeyMetaFields)
          /\ UNCHANGED kmsLast
     ELSE /\ kmsCalls' = kmsCalls \ {c}
          /\ KmsEnd("rotateKey", c.keyId, "VaultError")
          /\ UNCHANGED <<keysGenerated, handed>>
  /\ UNCHANGED <<keyCache, devices, emergency>>
  /\ UNCHANGED <<auditVars, verifyVars, aesVars, cbcVars, memVars>>

\* rotateKey, inside generateKey: blockchain.submitKeyGeneration settles;
\* the successor's private key is cached, or rotateKey rejects
RotateChain(c, ok) ==
  /\ c \in kmsCalls /\ c.op = "rotateKey" /\ c.pc = "record"
  /\ IF ok
     THEN /\ keyCache' = [keyCache EXCEPT ![c.newKey] =
                 [has |-> TRUE, expiresAt |-> now + GenerateCacheMs]]
          /\ kmsCalls' = (kmsCalls \ {c}) \cup {[c EXCEPT !.pc = "audit"]}
          /\ Hand("audit", KeyGeneratedAuditFields)
          /\ UNCHANGED kmsLast
     ELSE /\ kmsCalls' = kmsCalls \ {c}
          /\ KmsEnd("rotateKey", c.keyId, "ChainError")
          /\ UNCHANGED <<keyCache, handed>>
  /\ UNCHANGED <<keysGenerated, devices, emergency>>
  /\ UNCHANGED <<auditVars, verifyVars, aesVars, cbcVars, memVars>>

\* rotateKey, inside generateKey: audit.log('KEY_GENERATED', ...) settles
RotateAudit(c, ok) ==
  /\ c \in kmsCalls /\ c.op = "rotateKey" /\ c.pc = "audit"
  /\ IF ok
     THEN /\ kmsCalls' = (kmsCalls \ {c}) \cup {[c EXCEPT !.pc = "store"]}
          /\ Hand("fhir", DeviceFields)
          /\ UNCHANGED kmsLast
     ELSE /\ kmsCalls' = kmsCalls \ {c}
          /\ KmsEnd("rotateKey", c.keyId, "AuditError")
          /\ UNCHANGED handed
  /\ UNCHANGED <<keysGenerated, keyCache, devices, emergency>>
  /\ UNCHANGED <<auditVars, verifyVars, aesVars, cbcVars, memVars>>

\* rotateKey, inside generateKey: the FHIR server executes fhir.create
\* and the successor's Device is there while rotateKey is still awaiting
\* the answer, or the create fails and rotateKey rejects
RotateStore(c, ok) ==
  /\ c \in kmsCalls /\ c.op = "rotateKey" /\ c.pc = "store"
  /\ IF ok
     THEN /\ devices' = [devices EXCEPT ![c.newKey] =
                 [stored |-> TRUE, keyType |-> c.oldKey.keyType,
                  owner |-> c.oldKey.owner,
                  items |-> StoredItems, status |-> "none",
                  replacedBy |-> 0]]
          /\ kmsCalls' = (kmsCalls \ {c}) \cup {[c EXCEPT !.pc = "stored"]}
          /\ UNCHANGED kmsLast
     ELSE /\ kmsCalls' = kmsCalls \ {c}
          /\ KmsEnd("rotateKey", c.keyId, "FhirError")
          /\ UNCHANGED devices
  /\ UNCHANGED <<keysGenerated, keyCache, handed, emergency>>
  /\ UNCHANGED <<auditVars, verifyVars, aesVars, cbcVars, memVars>>

\* the answer of fhir.create arrives: generateKey returns the successor to
\* rotateKey, which calls _updateKeyMetadata, which sends its search
RotateStored(c) ==
  /\ c \in kmsCalls /\ c.op = "rotateKey" /\ c.pc = "stored"
  /\ kmsCalls' = (kmsCalls \ {c}) \cup
       {[c EXCEPT !.pc = "search2", !.meta = NoMeta]}
  /\ UNCHANGED <<keysGenerated, keyCache, devices, handed, kmsLast, emergency>>
  /\ UNCHANGED <<auditVars, verifyVars, aesVars, cbcVars, memVars>>

\* rotateKey: the answer of the search inside _updateKeyMetadata(keyId,
\* {status: 'retired', ...}) arrives and _updateKeyMetadata throws, so
\* rotateKey rejects with the successor created and the old Device as it
\* was.  The provenance record and the return of the new key (lines
\* 94-101) follow a resolved _updateKeyMetadata only.
RotateUpdate(c) ==
  /\ c \in kmsCalls /\ c.op = "rotateKey" /\ c.pc = "update"
  /\ kmsCalls' = kmsCalls \ {c}
  /\ KmsEnd("rotateKey", c.keyId, _updateKeyMetadata(c.meta))
  /\ UNCHANGED <<keysGenerated, keyCache, devices, handed, emergency>>
  /\ UNCHANGED <<auditVars, verifyVars, aesVars, cbcVars, memVars>>

\* if (Date.now() < cached.expiresAt)
CacheFreshAlways(k) == TRUE
CacheFresh(k) == now < keyCache[k].expiresAt

\* getPrivateKey up to its first await: a fresh cache entry is returned; a
\* stale one is deleted and _getKeyMetadata sends its search
GetBegin(k) ==
  /\ Cardinality(kmsCalls) < MaxKmsCalls
  /\ IF keyCache[k].has /\ CacheFresh(k)
     THEN /\ KmsEnd("getPrivateKey", k, "privateKey")
          /\ UNCHANGED <<keyCache, kmsCalls>>
     ELSE /\ keyCache' = [keyCache EXCEPT ![k].has = FALSE]
          /\ kmsCalls' = kmsCalls \cup
               {[call |-> NewCall, op |-> "getPrivateKey", keyId |-> k,
                 pc |-> "search", meta |-> NoMeta]}
          /\ UNCHANGED kmsLast
  /\ UNCHANGED <<keysGenerated, devices, handed, emergency>>
  /\ UNCHANGED <<auditVars, verifyVars, aesVars, cbcVars, memVars>>

\* getPrivateKey: the metadata arrives, the status is checked, and the
\* MFA token and the private key are asked of the vault
GetMeta(c) ==
  /\ c \in kmsCalls /\ c.op = "getPrivateKey" /\ c.pc = "meta"
  /\ LET m == c.meta IN
     IF ~m.found
     THEN /\ kmsCalls' = kmsCalls \ {c}
          /\ KmsEnd("getPrivateKey", c.keyId, "Key not found")
     ELSE IF m.status \in {"revoked", "retired"}
     THEN /\ kmsCalls' = kmsCalls \ {c}
          /\ KmsEnd("getPrivateKey", c.keyId, "Cannot use key")
     ELSE /\ kmsCalls' = (kmsCalls \ {c}) \cup {[c EXCEPT !.pc = "vault"]}
          /\ UNCHANGED kmsLast
  /\ UNCHANGED <<keysGenerated, keyCache, devices, handed, emergency>>
  /\ UNCHANGED <<auditVars, verifyVars, aesVars, cbcVars, memVars>>

\* getPrivateKey: the vault has answered (or refused) the token and the
\* key; re-cache, return
GetVault(c, ok) ==
  /\ c \in kmsCalls /\ c.op = "getPrivateKey" /\ c.pc = "vault"
  /\ kmsCalls' = kmsCalls \ {c}
  /\ IF ok
     THEN /\ keyCache' = [keyCache EXCEPT
                ![c.keyId] = [has |-> TRUE, expiresAt |-> now + RefetchCacheMs]]
          /\ KmsEnd("getPrivateKey", c.keyId, "privateKey")
     ELSE /\ UNCHANGED keyCache
          /\ KmsEnd("getPrivateKey", c.keyId, "VaultError")
  /\ UNCHANGED <<keysGenerated, devices, handed, emergency>>
  /\ UNCHANGED <<auditVars, verifyVars, aesVars, cbcVars, memVars>>

\* _verifyEmergencyAccess: justification.length > 20
VerifyAlways(length) == TRUE
_verifyEmergencyAccess(length) == length > EmergencyMinLength

\* emergencyKeyOverride up to the await of keyVault.emergencyRetrieve: the
\* justification check, then the request to the vault.  The key's
\* metadata is not read.
EmergBegin(k, length) ==
  /\ emergency.begun < MaxEmergencyCalls
  /\ Cardinality(kmsCalls) < MaxKmsCalls
  /\ IF _verifyEmergencyAccess(length)
     THEN /\ kmsCalls' = kmsCalls \cup
               {[call |-> NewCall, op |-> "emergencyKeyOverride", keyId |-> k,
                 pc |-> "vault", length |-> length, audited |-> FALSE]}
          /\ emergency' = [emergency EXCEPT !.begun = @ + 1,
                                            !.retrieved = @ + 1]
          /\ UNCHANGED kmsLast
     ELSE /\ KmsEnd("emergencyKeyOverride", k, "Emergency access denied")
          /\ emergency' = [emergency EXCEPT !.begun = @ + 1]
          /\ UNCHANGED kmsCalls
  /\ UNCHANGED <<keysGenerated, keyCache, devices, handed>>
  /\ UNCHANGED <<auditVars, verifyVars, aesVars, cbcVars, memVars>>

\* keyVault.emergencyRetrieve settles; audit.logEmergencyAccess is called
EmergVault(c, ok) ==
  /\ c \in kmsCalls /\ c.op = "emergencyKeyOverride" /\ c.pc = "vault"
  /\ IF ok
     THEN /\ kmsCalls' = (kmsCalls \ {c}) \cup {[c EXCEPT !.pc = "audit"]}
          /\ Hand("audit", EmergencyAuditFields)
          /\ UNCHANGED kmsLast
     ELSE /\ kmsCalls' = kmsCalls \ {c}
          /\ KmsEnd("emergencyKeyOverride", c.keyId, "VaultError")
          /\ UNCHANGED handed
  /\ UNCHANGED <<keysGenerated, keyCache, devices, emergency>>
  /\ UNCHANGED <<auditVars, verifyVars, aesVars, cbcVars, memVars>>

\* audit.logEmergencyAccess settles: the emergency audit record is
\* written; blockchain.recordEmergencyAccess is called
EmergAudit(c, ok) ==
  /\ c \in kmsCalls /\ c.op = "emergencyKeyOverride" /\ c.pc = "audit"
  /\ IF ok
     THEN /\ kmsCalls' = (kmsCalls \ {c}) \cup
               {[c EXCEPT !.pc = "chain", !.audited = TRUE]}
          /\ emergency' = [emergency EXCEPT !.audited = @ + 1]
          /\ Hand("blockchain", EmergencyChainFields)
          /\ UNCHANGED kmsLast
     ELSE /\ kmsCalls' = kmsCalls \ {c}
          /\ KmsEnd("emergencyKeyOverride", c.keyId, "AuditError")
          /\ UNCHANGED <<emergency, handed>>
  /\ UNCHANGED <<keysGenerated, keyCache, devices>>
  /\ UNCHANGED <<auditVars, verifyVars, aesVars, cbcVars, memVars>>

\* blockchain.recordEmergencyAccess settles: the record is on the chain
\* and the private key is returned
EmergChain(c, ok) ==
  /\ c \in kmsCalls /\ c.op = "emergencyKeyOverride" /\ c.pc = "chain"
  /\ kmsCalls' = kmsCalls \ {c}
  /\ IF ok
     THEN /\ emergency' = [emergency EXCEPT !.chained = @ + 1,
                                            !.returned = @ + 1]
          /\ KmsEnd("emergencyKeyOverride", c.keyId, "privateKey")
     ELSE /\ UNCHANGED emergency
          /\ KmsEnd("emergencyKeyOverride", c.keyId, "ChainError")
  /\ UNCHANGED <<keysGenerated, keyCache, devices, handed>>
  /\ UNCHANGED <<auditVars, verifyVars, aesVars, cbcVars, memVars>>

\* ---------------------------------------------------- defineRotationPolicy
\* the rules a policy may carry
PolicyRules == {"maxLifetime", "usageLimit"}

\* defineRotationPolicy is called: a policy with neither rule is refused
\* before anything is sent; otherwise the PlanDefinition is built and
\* handed to fhir.create
DefineBegin(rules) ==
  /\ Cardinality(kmsCalls) < MaxKmsCalls
  /\ IF rules = {}
     THEN /\ KmsEnd("defineRotationPolicy", 0,
                    "Policy must have maxLifetime or usageLimit")
          /\ UNCHANGED <<kmsCalls, handed>>
     ELSE /\ kmsCalls' = kmsCalls \cup
               {[call |-> NewCall, op |-> "defineRotationPolicy", keyId |-> 0,
                 pc |-> "plan"]}
          /\ Hand("fhir", PlanDefinitionFields)
          /\ UNCHANGED kmsLast
  /\ UNCHANGED <<keysGenerated, keyCache, devices, emergency>>
  /\ UNCHANGED <<auditVars, verifyVars, aesVars, cbcVars, memVars>>

\* fhir.create settles: the policy name and the version of the created
\* resource go to audit.log, or defineRotationPolicy rejects
DefineStore(c, ok) ==
  /\ c \in kmsCalls /\ c.op = "defineRotationPolicy" /\ c.pc = "plan"
  /\ IF ok
     THEN /\ kmsCalls' = (kmsCalls \ {c}) \cup {[c EXCEPT !.pc = "policyAudit"]}
          /\ Hand("audit", PolicyDefinedAuditFields)
          /\ UNCHANGED kmsLast
     ELSE /\ kmsCalls' = kmsCalls \ {c}
          /\ KmsEnd("defineRotationPolicy", 0, "FhirError")
          /\ UNCHANGED handed
  /\ UNCHANGED <<keysGenerated, keyCache, devices, emergency>>
  /\ UNCHANGED <<auditVars, verifyVars, aesVars, cbcVars, memVars>>

\* audit.log settles: defineRotationPolicy returns the created resource, or
\* rejects
DefineAudit(c, ok) ==
  /\ c \in kmsCalls /\ c.op = "defineRotationPolicy" /\ c.pc = "policyAudit"
  /\ kmsCalls' = kmsCalls \ {c}
  /\ KmsEnd("defineRotationPolicy", 0, IF ok THEN "ok" ELSE "AuditError")
  /\ UNCHANGED <<keysGenerated, keyCache, devices, handed, emergency>>
  /\ UNCHANGED <<auditVars, verifyVars, aesVars, cbcVars, memVars>>

\* =========================================== KeyManagementService (in memory)

\* the property names of this.keys: 'default' and `key-${Date.now()}`
MemDefault == <<"default">>
MemKeyName(t) == <<"key", t>>
MemKeyIds == {MemDefault} \cup {MemKeyName(n * TickMs) : n \in 0..MaxTicks}
\* oldKeyId: a key id, or undefined
MemUndefined == <<"undefined">>

NoRotation == [oldKeyId |-> MemUndefined, keyId |-> MemUndefined, key |-> 0]

\* getKey(keyId): this.keys[keyId]; 0 stands for undefined
getKey(keyId) == memKeys[keyId]

\* initialize(): this.keys['default'] = this.generateKey()
MemInitialize ==
  /\ memGenerated < MaxMemKeys
  /\ memGenerated' = memGenerated + 1
  /\ memKeys' = [memKeys EXCEPT ![MemDefault] = memGenerated + 1]
  /\ UNCHANGED <<memReturned, memLast>>
  /\ UNCHANGED <<auditVars, verifyVars, kmsVars, aesVars, cbcVars>>

\* rotateKey(oldKeyId): no await, so the call runs in one piece.  The new
\* key is a fresh draw of crypto.randomBytes(32).
MemRotateKey(oldKeyId) ==
  /\ memGenerated < MaxMemKeys
  /\ LET newKeyId == MemKeyName(now)
         newKey == memGenerated + 1
         added == [memKeys EXCEPT ![newKeyId] = newKey]
     IN /\ memKeys' = IF oldKeyId # MemUndefined /\ added[oldKeyId] # 0
                      THEN [added EXCEPT ![oldKeyId] = 0]
                      ELSE added
        /\ memLast' = [oldKeyId |-> oldKeyId, keyId |-> newKeyId,
                       key |-> newKey]
        /\ memReturned' = memReturned \cup {newKeyId}
  /\ memGenerated' = memGenerated + 1
  /\ UNCHANGED <<auditVars, verifyVars, kmsVars, aesVars, cbcVars>>

InitMemIdle ==
  /\ memKeys = [id \in MemKeyIds |-> 0]
  /\ memGenerated = 0
  /\ memReturned = {}
  /\ memLast = NoRotation

\* ======================================================= AesService (GCM)

AesKeyIds == 1..MaxAesKeys
\* the empty string and the strings "a", "ab", "aba", ... up to MaxPlainLen
PlainTexts ==
  {[i \in 1..n |-> IF i % 2 = 1 THEN "a" ELSE "b"] : n \in 0..MaxPlainLen}
\* options.contextData: absent, or an object (here: its resourceType)
NoContext == "none"
Contexts == {NoContext, "Patient", "Observation"}
\* chunkSize * 1024, in characters (options.chunkSize may be a fraction)
ChunkLens == {1}
\* crypto.randomBytes(12)
IvSpace == {"iv1", "iv2"}

\* An assignment to a binding declared with const raises TypeError when it
\* is executed.  iv is bound by a const destructuring (line 572) and
\* assigned at the end of the loop body (line 608).
IvIsLet == FALSE
IvIsConst == TRUE

\* _chunkData: substrings of chunkSize characters
RECURSIVE ChunkFrom(_, _, _)
ChunkFrom(data, i, chunkSize) ==
  IF i > Len(data) THEN <<>>
  ELSE <<SubSeq(data, i, Min(i + chunkSize - 1, Len(data)))>>
         \o ChunkFrom(data, i + chunkSize, chunkSize)

_chunkData(data, chunkSize) == ChunkFrom(data, 1, chunkSize)

\* aes-256-gcm as an ideal cipher: the ciphertext is determined by key, iv
\* and plaintext; the tag by key, iv, associated data and ciphertext.
GcmCiphertext(key, iv, pt) == [key |-> key, iv |-> iv, pt |-> pt]
GcmTag(key, iv, aad, ct) == [key |-> key, iv |-> iv, aad |-> aad, ct |-> ct]

\* Buffer.from(JSON.stringify({chunkIndex: index, ...contextData}))
Aad(index, ctx) == IF ctx = NoContext THEN <<>> ELSE <<index, ctx>>

\* The for loop of encrypt from chunk number k (1-based) on.  ivs[k] is the
\* iv in force for chunk k: the one _prepareKeyAndIV returned, then the
\* re-drawn ones.
RECURSIVE EncryptLoop(_, _, _, _, _)
EncryptLoop(chunks, k, key, ivs, ctx) ==
  IF k > Len(chunks) THEN [ok |-> TRUE, chunks |-> <<>>]
  ELSE LET ct == GcmCiphertext(key, ivs[k], chunks[k])
           one == [data |-> ct,
                   tag |-> GcmTag(key, ivs[k], Aad(k - 1, ctx), ct),
                   iv |-> ivs[k],
                   chunkInfo |-> [index |-> k - 1, total |-> Len(chunks)]]
       IN IF IvIsConst
          THEN [ok |-> FALSE, error |-> "TypeError"]
          ELSE LET rest == EncryptLoop(chunks, k + 1, key, ivs, ctx)
               IN IF rest.ok
                  THEN [ok |-> TRUE, chunks |-> <<one>> \o rest.chunks]
                  ELSE rest

\* encrypt between _prepareKeyAndIV and audit.log; the value it will
\* return: the chunk itself when there is exactly one, else the array.
EncryptBody(data, key, ivs, ctx, chunkSize) ==
  LET chunks == _chunkData(data, chunkSize)
      r == EncryptLoop(chunks, 1, key, ivs, ctx)
  IN IF r.ok
     THEN [ok |-> TRUE, isArray |-> Len(chunks) # 1, chunks |-> r.chunks]
     ELSE r

\* The for loop of decrypt: createDecipheriv, setAuthTag, setAAD when a
\* context is given, update, final (which throws on a tag mismatch).
RECURSIVE DecryptLoop(_, _, _, _)
DecryptLoop(chunks, k, key, ctx) ==
  IF k > Len(chunks) THEN [ok |-> TRUE, text |-> <<>>]
  ELSE LET c == chunks[k]
           aad == Aad(c.chunkInfo.index, ctx)
       IN IF c.tag # GcmTag(key, c.iv, aad, c.data)
          THEN [ok |-> FALSE, error |-> "AuthTagMismatch"]
          ELSE LET rest == DecryptLoop(chunks, k + 1, key, ctx)
               IN IF rest.ok
                  THEN [ok |-> TRUE, text |-> c.data.pt \o rest.text]
                  ELSE rest

\* Array.isArray(encryptedData) ? encryptedData : [encryptedData]
DecryptBody(envelope, key, ctx) == DecryptLoop(envelope.chunks, 1, key, ctx)

\* FHIR resources (here: their id) and their JSON text, token by token
Resources == {[id |-> "p1"], [id |-> "p2"]}
ResourceTypes == {"Patient", "Observation"}
JsonStringify(resource) == <<"{", "id", resource.id, "}">>
JsonParse(text) ==
  IF Len(text) = 4 /\ text[1] = "{" /\ text[2] = "id" /\ text[4] = "}"
  THEN [ok |-> TRUE, value |-> [id |-> text[3]]]
  ELSE [ok |-> FALSE]

\* encryptResource's contextData {resourceType, fhirVersion: 'R4',
\* securityTags: ['PHI', 'CONFIDENTIAL']} and decryptResource's
\* {resourceType: encryptedData.resourceType, fhirVersion: 'R4'}, as
\* JSON.stringify renders them.  What encrypt returns (a chunk or an array
\* of chunks) has no resourceType property, and a property whose value is
\* undefined is left out of the JSON text.
EncryptResourceContext(resourceType) ==
  "resourceType:" \o resourceType \o
    ",fhirVersion:R4,securityTags:[PHI,CONFIDENTIAL]"
DecryptResourceContext(encryptedData) ==
  IF "resourceType" \in DOMAIN encryptedData
  THEN "resourceType:" \o encryptedData.resourceType \o ",fhirVersion:R4"
  ELSE "fhirVersion:R4"

\* deriveKey is deterministic in the record's salt: one key per key id
DerivedKey(k) == <<"key", k>>

Unregistered ==
  [registered |-> FALSE, keyType |-> "", ownerId |-> "", lastUsed |-> -1,
   status |-> "none"]

NoEnvelope == [isArray |-> TRUE, chunks |-> <<>>]
\* where an envelope comes from: the arguments of the encrypt call
NoOrigin == [plaintext |-> <<>>, keyId |-> 0, ctx |-> NoContext]

AesEnd(c, ok, error, text) ==
  aesLast' = [op |-> c.op, keyId |-> c.keyId, ctx |-> c.ctx,
              origin |-> c.origin, ok |-> ok, error |-> error,
              outText |-> text]

\* generateKey, from the answer of keyDerivation.generateKey to the await
\* of audit.log: the record is registered under a fresh key id
AesGenerateKey(keyType, ownerId) ==
  /\ Cardinality({x \in aesCalls : x.op = "generateKey"}) < MaxAesCalls
  /\ \E k \in AesKeyIds :
       /\ ~keyRegistry[k].registered
       /\ \A j \in AesKeyIds : j < k => keyRegistry[j].registered
       /\ keyRegistry' = [keyRegistry EXCEPT ![k] =
            [registered |-> TRUE, keyType |-> keyType, ownerId |-> ownerId,
             lastUsed |-> -1, status |-> "none"]]
       /\ aesCalls' = aesCalls \cup
            {[op |-> "generateKey", keyId |-> k, ctx |-> NoContext,
              origin |-> NoOrigin, pc |-> "keyAudit"]}
  /\ UNCHANGED <<aesEnvelope, aesLast>>
  /\ UNCHANGED <<auditVars, verifyVars, kmsVars, cbcVars, memVars>>

\* generateKey, called directly or as the last statement of rotateKey:
\* audit.log('KEY_GENERATED', ...) settles and {key, keyId} is returned, or
\* the call rejects with the record it registered left in the registry
AesGenerateReturn(c, ok) ==
  /\ c \in aesCalls /\ c.pc = "keyAudit"
  /\ aesCalls' = aesCalls \ {c}
  /\ IF ok THEN AesEnd(c, TRUE, "", <<>>)
           ELSE AesEnd(c, FALSE, "AuditError", <<>>)
  /\ UNCHANGED <<keyRegistry, aesEnvelope>>
  /\ UNCHANGED <<auditVars, verifyVars, kmsVars, cbcVars, memVars>>

\* _prepareKeyAndIV up to the await of deriveKey, for encrypt(text, k,
\* {contextData: ctx, chunkSize}) and decrypt(envelope, k, {contextData: ctx})
AesBegin(op, text, envelope, origin, k, ctx, chunkSize) ==
  /\ Cardinality({x \in aesCalls : x.pc \in {"derive", "audit"}}) < MaxAesCalls
  /\ LET c == [op |-> op, text |-> text, envelope |-> envelope,
               origin |-> origin, keyId |-> k, ctx |-> ctx,
               chunkSize |-> chunkSize, keyInfo |-> keyRegistry[k],
               pc |-> "derive", outText |-> <<>>, outEnvelope |-> NoEnvelope]
     IN IF keyRegistry[k].registered
        THEN /\ aesCalls' = aesCalls \cup {c}
             /\ UNCHANGED aesLast
        ELSE /\ AesEnd(c, FALSE, "Invalid key ID", <<>>)
             /\ UNCHANGED aesCalls
  /\ UNCHANGED <<keyRegistry, aesEnvelope>>
  /\ UNCHANGED <<auditVars, verifyVars, kmsVars, cbcVars, memVars>>

\* the rest of _prepareKeyAndIV (the record is written back with lastUsed)
\* and the body of encrypt or decrypt up to the await of audit.log
AesBody(c, ivs) ==
  /\ c \in aesCalls /\ c.pc = "derive"
  /\ keyRegistry' = [keyRegistry EXCEPT ![c.keyId] =
                       [c.keyInfo EXCEPT !.lastUsed = now]]
  /\ IF c.op \in {"encrypt", "encryptResource"}
     THEN LET r == EncryptBody(c.text, DerivedKey(c.keyId), ivs, c.ctx,
                               c.chunkSize)
          IN IF r.ok
             THEN /\ aesCalls' = (aesCalls \ {c}) \cup
                        {[c EXCEPT !.pc = "audit",
                                   !.outEnvelope = [isArray |-> r.isArray,
                                                    chunks |-> r.chunks]]}
                  /\ UNCHANGED aesLast
             ELSE /\ aesCalls' = aesCalls \ {c}
                  /\ AesEnd(c, FALSE, r.error, <<>>)
     ELSE LET r == DecryptBody(c.envelope, DerivedKey(c.keyId), c.ctx)
          IN IF r.ok
             THEN /\ aesCalls' = (aesCalls \ {c}) \cup
                        {[c EXCEPT !.pc = "audit", !.outText = r.text]}
                  /\ UNCHANGED aesLast
             ELSE /\ aesCalls' = aesCalls \ {c}
                  /\ AesEnd(c, FALSE, r.error, <<>>)
  /\ UNCHANGED aesEnvelope
  /\ UNCHANGED <<auditVars, verifyVars, kmsVars, cbcVars, memVars>>

\* audit.log resolves and the call returns; encryptResource goes on to
\* the provenance record, decryptResource to JSON.parse of the text
AesReturn(c) ==
  /\ c \in aesCalls /\ c.pc = "audit"
  /\ aesCalls' = aesCalls \ {c}
  /\ IF c.op = "decryptResource" /\ ~JsonParse(c.outText).ok
     THEN AesEnd(c, FALSE, "SyntaxError", <<>>)
     ELSE AesEnd(c, TRUE, "", c.outText)
  /\ aesEnvelope' = IF c.op \in {"encrypt", "encryptResource"}
                    THEN [made |-> TRUE, envelope |-> c.outEnvelope,
                          origin |-> c.origin]
                    ELSE aesEnvelope
  /\ UNCHANGED keyRegistry
  /\ UNCHANGED <<auditVars, verifyVars, kmsVars, cbcVars, memVars>>

\* rotateKey up to the await of keyDerivation.generateKey: the record is
\* read, 'Key not found' when there is none
AesRotateBegin(k) ==
  /\ Cardinality({x \in aesCalls : x.op = "rotateKey"}) < MaxAesRotations
  /\ LET c == [op |-> "rotateKey", keyId |-> k, ctx |-> NoContext,
               origin |-> NoOrigin, keyInfo |-> keyRegistry[k],
               pc |-> "rotate"]
     IN IF keyRegistry[k].registered
        THEN /\ aesCalls' = aesCalls \cup {c}
             /\ UNCHANGED aesLast
        ELSE /\ AesEnd(c, FALSE, "Key not found", <<>>)
             /\ UNCHANGED aesCalls
  /\ UNCHANGED <<keyRegistry, aesEnvelope>>
  /\ UNCHANGED <<auditVars, verifyVars, kmsVars, cbcVars, memVars>>

\* rotateKey: the copy read at the start is written back with status
\* 'deprecated'; generateKey is entered and waits for its key derivation
AesRotateMark(c) ==
  /\ c \in aesCalls /\ c.op = "rotateKey" /\ c.pc = "rotate"
  /\ keyRegistry' = [keyRegistry EXCEPT ![c.keyId] =
                       [c.keyInfo EXCEPT !.status = "deprecated"]]
  /\ aesCalls' = (aesCalls \ {c}) \cup {[c EXCEPT !.pc = "successor"]}
  /\ UNCHANGED <<aesEnvelope, aesLast>>
  /\ UNCHANGED <<auditVars, verifyVars, kmsVars, cbcVars, memVars>>

\* rotateKey, inside generateKey: the key derivation answers, the
\* successor's record is registered under a fresh key id and audit.log is
\* awaited
AesRotateNew(c) ==
  /\ c \in aesCalls /\ c.op = "rotateKey" /\ c.pc = "successor"
  /\ \E k \in AesKeyIds :
       /\ ~keyRegistry[k].registered
       /\ \A j \in AesKeyIds : j < k => keyRegistry[j].registered
       /\ keyRegistry' = [keyRegistry EXCEPT ![k] =
            [registered |-> TRUE, keyType |-> c.keyInfo.keyType,
             ownerId |-> c.keyInfo.ownerId, lastUsed |-> -1,
             status |-> "none"]]
  /\ aesCalls' = (aesCalls \ {c}) \cup {[c EXCEPT !.pc = "keyAudit"]}
  /\ UNCHANGED <<aesEnvelope, aesLast>>
  /\ UNCHANGED <<auditVars, verifyVars, kmsVars, cbcVars, memVars>>

InitAesIdle ==
  /\ keyRegistry = [k \in AesKeyIds |-> Unregistered]
  /\ aesCalls = {}
  /\ aesEnvelope = [made |-> FALSE, envelope |-> NoEnvelope, origin |-> NoOrigin]
  /\ aesLast = [op |-> "none", keyId |-> 0, ctx |-> NoContext,
                origin |-> NoOrigin, ok |-> TRUE, error |-> "",
                outText |-> <<>>]

\* ======================================================= AesService (CBC)
\* backend/aesService.js: aes-256-cbc, no authentication tag.  The cipher
\* is kept in miniature: bytes are 0..3, a block is two bytes, and the
\* block cipher is a keyed permutation of the sixteen block values.

CbcBytes == 0..3
CbcKeys == {0, 1}
\* crypto.randomBytes(this.ivLength), one block
CbcIvs == {3, 12}
\* the texts callers encrypt: up to two full blocks, so that with the
\* padding a ciphertext has one to three blocks
CbcTextBytes == {0, 3}
CbcTexts == UNION {[1..n -> CbcTextBytes] : n \in 0..MaxCbcLen}
CbcBlocks == 0..15

BlockEnc(key, x) == (5 * x + 3 * key + 1) % 16
BlockDec(key, y) == (13 * (y + 32 - 3 * key - 1)) % 16

RECURSIVE Xor(_, _)
Xor(a, b) ==
  IF a = 0 THEN b
  ELSE IF b = 0 THEN a
  ELSE 2 * Xor(a \div 2, b \div 2) + ((a + b) % 2)

\* PKCS#7 padding to whole blocks of two bytes
Pad(text) == IF Len(text) % 2 = 0 THEN text \o <<2, 2>> ELSE text \o <<1>>

ToBlocks(bytes) ==
  [k \in 1..(Len(bytes) \div 2) |-> 4 * bytes[2 * k - 1] + bytes[2 * k]]

RECURSIVE FromBlocks(_)
FromBlocks(blocks) ==
  IF blocks = <<>> THEN <<>>
  ELSE <<Head(blocks) \div 4, Head(blocks) % 4>> \o FromBlocks(Tail(blocks))

RECURSIVE CbcEncBlocks(_, _, _)
CbcEncBlocks(key, prev, blocks) ==
  IF blocks = <<>> THEN <<>>
  ELSE LET c == BlockEnc(key, Xor(Head(blocks), prev))
       IN <<c>> \o CbcEncBlocks(key, c, Tail(blocks))

RECURSIVE CbcDecBlocks(_, _, _)
CbcDecBlocks(key, prev, blocks) ==
  IF blocks = <<>> THEN <<>>
  ELSE <<Xor(BlockDec(key, Head(blocks)), prev)>>
         \o CbcDecBlocks(key, Head(blocks), Tail(blocks))

\* encrypt(text, key): cipher.update + cipher.final
CbcEncrypt(text, key, iv) ==
  [iv |-> iv, encryptedData |-> CbcEncBlocks(key, iv, ToBlocks(Pad(text)))]

\* decrypt(encryptedData, key, iv): decipher.update + decipher.final, which
\* throws when the padding of the last block is malformed
CbcDecrypt(encryptedData, key, iv) ==
  LET bytes == FromBlocks(CbcDecBlocks(key, iv, encryptedData))
      n == Len(bytes)
  IN IF n = 0 THEN [ok |-> FALSE, text |-> <<>>]
     ELSE IF bytes[n] = 1 THEN [ok |-> TRUE, text |-> SubSeq(bytes, 1, n - 1)]
     ELSE IF bytes[n] = 2 /\ bytes[n - 1] = 2
          THEN [ok |-> TRUE, text |-> SubSeq(bytes, 1, n - 2)]
     ELSE [ok |-> FALSE, text |-> <<>>]

\* cbcLast before the envelope held has been decrypted
NotDecrypted == [done |-> FALSE, ok |-> FALSE, text |-> <<>>]

\* a caller encrypts and keeps the result
CbcEncryptCall(text, key, iv) ==
  /\ LET e == CbcEncrypt(text, key, iv) IN
     cbcEnvelope' = [made |-> TRUE, iv |-> e.iv,
                     encryptedData |-> e.encryptedData, key |-> key,
                     plaintext |-> text, tampered |-> FALSE]
  /\ cbcLast' = NotDecrypted
  /\ UNCHANGED <<auditVars, verifyVars, kmsVars, aesVars, memVars>>

\* the stored ciphertext is changed in one block
CbcTamper(k, v) ==
  /\ cbcEnvelope.made /\ ~cbcEnvelope.tampered
  /\ k \in 1..Len(cbcEnvelope.encryptedData)
  /\ cbcEnvelope.encryptedData[k] # v
  /\ cbcEnvelope' = [cbcEnvelope EXCEPT !.encryptedData[k] = v,
                                        !.tampered = TRUE]
  /\ cbcLast' = NotDecrypted
  /\ UNCHANGED <<auditVars, verifyVars, kmsVars, aesVars, memVars>>

\* the caller decrypts what it holds, with the key it was encrypted under
CbcDecryptCall ==
  /\ cbcEnvelope.made
  /\ LET r == CbcDecrypt(cbcEnvelope.encryptedData, cbcEnvelope.key,
                         cbcEnvelope.iv)
     IN cbcLast' = [done |-> TRUE, ok |-> r.ok, text |-> r.text]
  /\ UNCHANGED cbcEnvelope
  /\ UNCHANGED <<auditVars, verifyVars, kmsVars, aesVars, memVars>>

InitCbcIdle ==
  /\ cbcEnvelope = [made |-> FALSE, iv |-> 0, encryptedData |-> <<>>,
                    key |-> 0, plaintext |-> <<>>, tampered |-> FALSE]
  /\ cbcLast = NotDecrypted

InitKmsIdle ==
  /\ keysGenerated = 0
  /\ keyCache = [k \in 1..MaxKeys |-> [has |-> FALSE, expiresAt |-> 0]]
  /\ devices = [k \in 1..MaxKeys |-> [stored |-> FALSE]]
  /\ handed = {}
  /\ kmsCalls = {}
  /\ kmsLast = [op |-> "none", keyId |-> 0, result |-> "none"]
  /\ emergency = [begun |-> 0, retrieved |-> 0, audited |-> 0,
                  chained |-> 0, returned |-> 0]

InitAuditCommon ==
  /\ InitMemIdle
  /\ InitVerifyIdle
  /\ InitKmsIdle
  /\ InitAesIdle
  /\ InitCbcIdle
  /\ now = 0
  /\ entries = <<>>
  /\ calls = <<>>
  /\ submitted = <<>>
  /\ txCount = 0
  /\ wssClients = <<>>
  /\ readyState = [c \in Clients |-> "CLOSED"]
  /\ filters = [c \in Clients |-> NoFilter]
  /\ lastNotify = [entry |-> 0, sent |-> {}, threw |-> FALSE, failed |-> {}]
  /\ subscribed = [c \in Clients |-> NeverSubscribed]

\* initialize(): sequelize.authenticate(), then LogEntry.sync({force:
\* NODE_ENV === 'test'}).  With force the table is dropped and created
\* again, empty, whatever log() calls are suspended: they go on with the
\* instances and batches they hold.  Without force no row changes.
Initialize(force) ==
  /\ entries' = IF force THEN <<>> ELSE entries
  /\ UNCHANGED calls
  /\ UNCHANGED nonAuditVars
  /\ UNCHANGED <<anchoringEnabled, anchorUp, now, submitted, txCount,
                 wssClients, readyState, filters, lastNotify, subscribed>>

\* The anchoring steps compare ids for equality only: the specifications
\* that are not about the ids draw them in one order, one per log() call.
NextSerial == Len(calls) + 1

\* ---- the ledger with anchoring switched on, no websocket client.
\* This specification and the ones after it, SpecStartup apart, are of a
\* deployment whose NODE_ENV is not 'test': initialize() changes no row
\* there (Initialize(FALSE)), a step that leaves every variable as it is.
InitAudit ==
  /\ InitAuditCommon
  /\ anchoringEnabled = TRUE
  /\ anchorUp \in BOOLEAN

NextAudit ==
  \/ LogCreate("dr.smith", NextSerial)
  \/ \E i \in 1..MaxEntries : HookRead(i, {})
  \/ \E i \in 1..MaxEntries : HookCheck(i, {})
  \/ \E i \in 1..MaxEntries : AnchorRespond(i)
  \/ \E i \in 1..MaxEntries : UpdateApply(i)
  \/ \E i \in 1..MaxEntries : HookUpdate(i, {})
  \/ Tick
  \/ AnchorFlip

SpecAudit == InitAudit /\ [][NextAudit]_vars

\* ---- the ledger under NODE_ENV = 'test': initialize() drops the table
\* at any moment, also while log() calls are suspended
InitStartup == InitAudit

NextStartup ==
  \/ Initialize(TRUE)
  \/ Len(calls) < MaxStartupCalls /\ LogCreate("dr.smith", NextSerial)
  \/ \E i \in 1..MaxEntries : HookRead(i, {})
  \/ \E i \in 1..MaxEntries : HookCheck(i, {})
  \/ \E i \in 1..MaxEntries : AnchorRespond(i)
  \/ \E i \in 1..MaxEntries : UpdateApply(i)
  \/ \E i \in 1..MaxEntries : HookUpdate(i, {})
  \/ Tick
  \/ AnchorFlip

SpecStartup == InitStartup /\ [][NextStartup]_vars

\* ---- the same ledger with the anchor always reachable.  The event loop
\* runs every continuation that is ready and the clock keeps advancing;
\* nothing obliges a caller to call log() again.
InitAuditFair == InitAudit /\ anchorUp = TRUE

NextAuditFair ==
  \/ LogCreate("dr.smith", NextSerial)
  \/ \E i \in 1..MaxEntries : HookRead(i, {})
  \/ \E i \in 1..MaxEntries : HookCheck(i, {})
  \/ \E i \in 1..MaxEntries : AnchorRespond(i)
  \/ \E i \in 1..MaxEntries : UpdateApply(i)
  \/ \E i \in 1..MaxEntries : HookUpdate(i, {})
  \/ Tick

SpecAuditFair ==
  /\ InitAuditFair
  /\ [][NextAuditFair]_vars
  /\ WF_vars(\E i \in 1..MaxEntries : HookRead(i, {}))
  /\ WF_vars(\E i \in 1..MaxEntries : HookCheck(i, {}))
  /\ WF_vars(\E i \in 1..MaxEntries : AnchorRespond(i))
  /\ WF_vars(\E i \in 1..MaxEntries : UpdateApply(i))
  /\ WF_vars(\E i \in 1..MaxEntries : HookUpdate(i, {}))
  /\ WF_vars(Tick)

\* ---- the ledger with anchoring switched off: ids drawn freely
InitIds ==
  /\ InitAuditCommon
  /\ anchoringEnabled = FALSE
  /\ anchorUp = TRUE

NextIds ==
  \/ \E id \in UuidSpace : LogCreate("dr.smith", id)
  \/ \E i \in 1..MaxEntries : HookRead(i, {})

SpecIds == InitIds /\ [][NextIds]_vars

\* ---- the subscriber hub: anchoring switched off, websocket clients
\* _setupRealtimeNotifications: a new socket joins wss.clients
Connect(c) ==
  /\ \A k \in 1..Len(wssClients) : wssClients[k] # c
  /\ wssClients' = Append(wssClients, c)
  /\ readyState' = [readyState EXCEPT ![c] = "OPEN"]
  /\ filters' = [filters EXCEPT ![c] = NoFilter]
  /\ subscribed' = [subscribed EXCEPT ![c] = NeverSubscribed]
  /\ UNCHANGED nonAuditVars
  /\ UNCHANGED <<anchoringEnabled, anchorUp, now, entries, calls, submitted,
                 txCount, lastNotify>>

\* ws.filters = filters: the message's filters take the place of the
\* socket's
StoreFilters(old, f) == f

\* ws.on('message'): only SUBSCRIBE stores the message's filters
Message(c, type, f) ==
  /\ \E k \in 1..Len(wssClients) : wssClients[k] = c
  /\ readyState[c] = "OPEN"
  /\ filters' = IF type = "SUBSCRIBE"
                THEN [filters EXCEPT ![c] = StoreFilters(filters[c], f)]
                ELSE filters
  /\ subscribed' = IF type = "SUBSCRIBE"
                   THEN [subscribed EXCEPT ![c] =
                           [count |-> Min(subscribed[c].count + 1, MaxSubscribes),
                            filters |-> f]]
                   ELSE subscribed
  /\ UNCHANGED nonAuditVars
  /\ UNCHANGED <<anchoringEnabled, anchorUp, now, entries, calls, submitted,
                 txCount, wssClients, readyState, lastNotify>>

\* the closing handshake starts: the socket stays in wss.clients
BeginClose(c) ==
  /\ \E k \in 1..Len(wssClients) : wssClients[k] = c
  /\ readyState[c] = "OPEN"
  /\ readyState' = [readyState EXCEPT ![c] = "CLOSING"]
  /\ UNCHANGED nonAuditVars
  /\ UNCHANGED <<anchoringEnabled, anchorUp, now, entries, calls, submitted,
                 txCount, wssClients, filters, lastNotify, subscribed>>

\* the socket closes: the server drops it from wss.clients
Close(c) ==
  /\ \E k \in 1..Len(wssClients) : wssClients[k] = c
  /\ wssClients' = SelectSeq(wssClients, LAMBDA x : x # c)
  /\ readyState' = [readyState EXCEPT ![c] = "CLOSED"]
  /\ UNCHANGED nonAuditVars
  /\ UNCHANGED <<anchoringEnabled, anchorUp, now, entries, calls, submitted,
                 txCount, filters, lastNotify, subscribed>>

InitHub == InitIds

NextHub ==
  \/ \E u \in Users : Len(entries) < MaxHubEntries /\ LogCreate(u, NextSerial)
  \/ \E i \in 1..MaxEntries, failing \in SUBSET Clients : HookRead(i, failing)
  \/ \E c \in Clients : Connect(c)
  \/ \E c \in Clients, t \in MessageTypes, f \in FilterSpace : Message(c, t, f)
  \/ \E c \in Clients : BeginClose(c)
  \/ \E c \in Clients : Close(c)

SpecHub == InitHub /\ [][NextHub]_vars

\* ---- the subscriber hub with anchoring switched on; every send succeeds
\* and a socket subscribes once
InitNotify == InitAudit

NextNotify ==
  \/ Len(entries) < MaxHubEntries /\ LogCreate("dr.smith", NextSerial)
  \/ \E i \in 1..MaxEntries : HookRead(i, {})
  \/ \E i \in 1..MaxEntries : HookCheck(i, {})
  \/ \E i \in 1..MaxEntries : AnchorRespond(i)
  \/ \E i \in 1..MaxEntries : UpdateApply(i)
  \/ \E i \in 1..MaxEntries : HookUpdate(i, {})
  \/ Tick
  \/ \E c \in Clients : Connect(c)
  \/ \E c \in Clients, t \in MessageTypes, f \in FilterSpace :
       subscribed[c].count = 0 /\ Message(c, t, f)
  \/ \E c \in Clients : BeginClose(c)
  \/ \E c \in Clients : Close(c)

SpecNotify == InitNotify /\ [][NextNotify]_vars

\* ---- the ledger with an anchor that may never answer: the event loop
\* runs every continuation that is ready, but nothing obliges
\* submitAuditBatch to settle.
InitAuditHung == InitAudit /\ anchorUp = TRUE

NextAuditHung == NextAuditFair

SpecAuditHung ==
  /\ InitAuditHung
  /\ [][NextAuditHung]_vars
  /\ WF_vars(\E i \in 1..MaxEntries : HookRead(i, {}))
  /\ WF_vars(\E i \in 1..MaxEntries : HookCheck(i, {}))
  /\ WF_vars(\E i \in 1..MaxEntries : UpdateApply(i))
  /\ WF_vars(\E i \in 1..MaxEntries : HookUpdate(i, {}))
  /\ WF_vars(Tick)

\* ---- the ledger with anchoring switched on, and verifyEntry
InitVerify == InitAudit

NextVerify ==
  \/ Len(entries) < MaxVerifyEntries /\ LogCreate("dr.smith", NextSerial)
  \/ \E i \in 1..Len(calls) : HookRead(i, {})
  \/ \E i \in 1..Len(calls) : HookCheck(i, {})
  \/ \E i \in 1..Len(calls) : AnchorRespond(i)
  \/ \E i \in 1..Len(calls) : UpdateApply(i)
  \/ \E i \in 1..Len(calls) : HookUpdate(i, {})
  \/ Tick
  \/ AnchorFlip
  \/ \E id \in 1..(MaxVerifyEntries + 1) : VerifyBegin(id)
  \/ \E c \in verifyCalls : VerifyRead(c)
  \/ \E c \in verifyCalls : VerifyFind(c)
  \/ \E c \in verifyCalls, answer \in BOOLEAN : VerifyAnswer(c, answer)

SpecVerify == InitVerify /\ [][NextVerify]_vars

\* ---- the key management service
InitKms == InitIds

NextKms ==
  \/ GenBegin("data-encryption", "Patient/42")
  \/ \E c \in kmsCalls, ok \in BOOLEAN : GenVault(c, ok)
  \/ \E c \in kmsCalls, ok \in BOOLEAN : GenChain(c, ok)
  \/ \E c \in kmsCalls, ok \in BOOLEAN : GenAudit(c, ok)
  \/ \E c \in kmsCalls, ok \in BOOLEAN : GenStore(c, ok)
  \/ \E c \in kmsCalls : GenReturn(c)
  \/ \E c \in kmsCalls : FhirSearch(c)
  \/ \E k \in KeyIds : RevokeRead(k)
  \/ \E c \in kmsCalls : RevokeMeta(c)
  \/ \E c \in kmsCalls : RevokeUpdate(c)
  \/ \E k \in KeyIds : RotateBegin(k)
  \/ \E c \in kmsCalls : RotateMeta(c)
  \/ \E c \in kmsCalls, ok \in BOOLEAN : RotateVault(c, ok)
  \/ \E c \in kmsCalls, ok \in BOOLEAN : RotateChain(c, ok)
  \/ \E c \in kmsCalls, ok \in BOOLEAN : RotateAudit(c, ok)
  \/ \E c \in kmsCalls, ok \in BOOLEAN : RotateStore(c, ok)
  \/ \E c \in kmsCalls : RotateStored(c)
  \/ \E c \in kmsCalls : RotateUpdate(c)
  \/ \E k \in KeyIds : GetBegin(k)
  \/ \E c \in kmsCalls : GetMeta(c)
  \/ \E c \in kmsCalls, ok \in BOOLEAN : GetVault(c, ok)
  \/ \E rules \in SUBSET PolicyRules : DefineBegin(rules)
  \/ \E c \in kmsCalls, ok \in BOOLEAN : DefineStore(c, ok)
  \/ \E c \in kmsCalls, ok \in BOOLEAN : DefineAudit(c, ok)
  \/ now < MaxKmsTicks * TickMs /\ Tick

SpecKms == InitKms /\ [][NextKms]_vars

\* ---- the GCM encryption service
InitAes == InitIds

NextAes ==
  \/ AesGenerateKey("patient-data", "42")
  \/ \E c \in aesCalls, ok \in BOOLEAN : AesGenerateReturn(c, ok)
  \/ \E p \in PlainTexts, k \in AesKeyIds, x \in Contexts, n \in ChunkLens :
       AesBegin("encrypt", p, NoEnvelope,
                [plaintext |-> p, keyId |-> k, ctx |-> x], k, x, n)
  \/ \E k \in AesKeyIds, x \in Contexts :
       /\ aesEnvelope.made
       /\ AesBegin("decrypt", <<>>, aesEnvelope.envelope, aesEnvelope.origin,
                   k, x, 1)
  \/ \E c \in aesCalls, ivs \in [1..MaxPlainLen -> IvSpace] : AesBody(c, ivs)
  \/ \E c \in aesCalls : AesReturn(c)

SpecAes == InitAes /\ [][NextAes]_vars

\* ---- the CBC encryption service
InitCbc == InitIds

NextCbc ==
  \/ \E t \in CbcTexts, key \in CbcKeys, iv \in CbcIvs : CbcEncryptCall(t, key, iv)
  \/ \E k \in 1..(MaxCbcLen + 2), v \in CbcBlocks : CbcTamper(k, v)
  \/ CbcDecryptCall

SpecCbc == InitCbc /\ [][NextCbc]_vars

\* ================================================================== claims

SeqRange(q) == {q[k] : k \in 1..Len(q)}

\* A call in flight before a step and gone after it has ended in the step.
Ended(c) == c \in kmsCalls /\ \A d \in kmsCalls' : d.call # c.call

\* revokeKey never resolves: it rejects with 'Key not found' where the
\* search inside _updateKeyMetadata found no Device, and with the
\* TypeError of current.extensions.map where it found one.
RevokeKeyRejects ==
  kmsLast.op = "revokeKey" => kmsLast.result \in {"Key not found", "TypeError"}

\* rotateKey never resolves either.
RotateKeyRejects ==
  kmsLast.op = "rotateKey" => kmsLast.result # "ok"

\* No stored Device has a status item: every key found parses as 'active'.
EveryStoredKeyActive ==
  \A k \in KeyIds : devices[k].stored => ParsedStatus(devices[k]) = "active"

\* C8: for every registered key and every plaintext, shorter or longer
\* than one chunk, encrypt completes without error, and decrypt of what it
\* returned, under the same key and context, returns the plaintext.
C8_EncryptDecryptRoundTrip ==
  /\ (aesLast.op = "encrypt" /\ aesLast.error # "Invalid key ID")
       => aesLast.ok
  /\ (aesLast.op = "decrypt" /\ aesLast.keyId = aesLast.origin.keyId
        /\ aesLast.ctx = aesLast.origin.ctx)
       => (aesLast.ok /\ aesLast.outText = aesLast.origin.plaintext)

\* C9: decrypt of an envelope produced by encrypt and then changed in its
\* data fails with an error; it returns no plaintext.
C9_TamperedEnvelopeRejected ==
  (cbcLast.done /\ cbcEnvelope.tampered) => ~cbcLast.ok

\* C10: a ciphertext produced by encrypt with context c decrypts
\* successfully only under the same context c (no context included).
C10_ContextBound ==
  (aesLast.op = "decrypt" /\ aesLast.ok) => aesLast.ctx = aesLast.origin.ctx

\* C2: no LogEntry id is in the entry lists of two distinct batches handed
\* to blockchain.submitAuditBatch, whatever the interleaving of log() calls.
C2_NoEntryInTwoBatches ==
  \A a, b \in 1..Len(submitted) :
    a # b => SeqRange(submitted[a].entries) \cap SeqRange(submitted[b].entries) = {}

\* Two batches have been handed to the anchor.
C2_TwoBatchesSubmitted == Len(submitted) >= 2

\* C3: the ids of the entries created by log(), concurrent calls included,
\* are pairwise distinct and strictly increasing in creation order, so
\* that id order is the order of the ledger.
C3_IdsDistinctAndIncreasing ==
  /\ \A i, j \in 1..Len(entries) : i # j => entries[i].id # entries[j].id
  /\ \A i, j \in 1..Len(entries) : i < j => entries[i].id < entries[j].id

\* C4: with the anchor reachable and fair scheduling, every entry created
\* is eventually anchored (blockchainTxId set, verified = true) without any
\* further log() call.
C4_EveryEntryEventuallyAnchored ==
  \A i \in 1..MaxEntries :
    (i <= Len(entries)) ~>
      (i <= Len(entries) /\ entries[i].verified /\ entries[i].blockchainTxId # 0)

\* The binary Merkle tree built bottom-up, an odd remainder paired with
\* itself.
RECURSIVE MerkleTreeRoot(_)
MerkleTreeRoot(hashes) ==
  IF Len(hashes) = 1 THEN hashes[1] ELSE MerkleTreeRoot(NewLevel(hashes))

RECURSIVE SortedById(_)
SortedById(ps) ==
  IF ps = {} THEN <<>>
  ELSE LET p == CHOOSE x \in ps : \A y \in ps : x.id <= y.id
       IN <<p>> \o SortedById(ps \ {p})

LeavesInIdOrder(batch) ==
  LET sorted == SortedById(SeqRange(batch))
  IN [k \in 1..Len(sorted) |-> _hashEntry(sorted[k])]

\* C5: for every batch of one or more entries that is due, the Merkle root
\* is computed (no failure) and is the root of the bottom-up binary tree
\* over the entries' hashes in ascending id order.
C5_MerkleRootOfEveryBatch ==
  \A i \in 1..Len(calls) :
    (calls[i].pc = "check" /\ BatchIsDue(calls[i].batch)) =>
      LET m == _calculateMerkleRoot(calls[i].batch)
      IN m.ok /\ m.root = MerkleTreeRoot(LeavesInIdOrder(calls[i].batch))

\* C6: while the anchor is unreachable a log() call that ends has
\* succeeded, whatever the number of unanchored entries: it does not raise
\* the anchor's failure (or any other) to its caller.
C6_LogSucceedsWhileAnchorDown ==
  [][\A i \in 1..Len(calls) :
       (~anchorUp /\ calls[i].pc \in Running /\ calls'[i].pc \notin Running)
         => (calls'[i].pc = "ok" /\ ~entries'[i].verified)]_vars

\* C7: log() never fails because a notification failed: no call ends with
\* the error thrown by client.send, and the loop over the subscribers is
\* not cut short.
C7_NotificationFailureAbsorbed ==
  /\ \A i \in 1..Len(calls) : calls[i].pc # "SendError"
  /\ ~lastNotify.threw

\* C11: at most one key with status active exists per (owner, keyType),
\* whatever generateKey, rotateKey and revokeKey calls have run; a
\* generateKey for a pair that has an active key creates no second one.
C11_OneActiveKeyPerOwnerAndType ==
  \A j, k \in KeyIds :
    (j # k /\ devices[j].stored /\ devices[k].stored
       /\ ParsedStatus(devices[j]) = "active"
       /\ ParsedStatus(devices[k]) = "active")
      => <<devices[j].owner, devices[j].keyType>>
           # <<devices[k].owner, devices[k].keyType>>

\* What a rotateKey call knows of its key: the answer to its search once
\* it has arrived, kept as oldKey from then on.
RotateOldKey(c) == IF c.pc = "meta" THEN c.meta ELSE c.oldKey

C14_OnlyActiveKnownKeysServed ==
  (kmsLast.op = "getPrivateKey" /\ kmsLast.result = "privateKey") =>
    /\ devices[kmsLast.keyId].stored
    /\ ParsedStatus(devices[kmsLast.keyId]) = "active"

\* The usage count of key k that the stored metadata shows.
UsageCount(k) ==
  IF devices[k].stored /\ "usage" \in devices[k].items
  THEN devices[k].usage ELSE 0

\* C15: each getPrivateKey call that hands out the key increases the
\* key's usage count by exactly one (the count the usage limit is checked
\* against), and the usage count never decreases.
C15_UsageCounted ==
  [][\A k \in KeyIds :
       /\ UsageCount(k)' >= UsageCount(k)
       /\ (kmsLast' # kmsLast /\ kmsLast'.op = "getPrivateKey"
             /\ kmsLast'.keyId = k /\ kmsLast'.result = "privateKey")
            => UsageCount(k)' = UsageCount(k) + 1]_vars

\* C17: verifyEntry has three distinct outcomes: 'Entry not found' when
\* no entry has the id; false, without a request to the anchor, when the
\* entry has no blockchainTxId; otherwise the anchor's answer for the
\* entry's transaction and recomputed hash, an unreachable anchor being an
\* error and never the value false.
C17_VerifyEntryOutcomes ==
  verifyLast.outcome # "none" =>
    IF ~verifyLast.found
    THEN verifyLast.outcome = "Entry not found" /\ ~verifyLast.request.asked
    ELSE IF verifyLast.tx = 0
    THEN verifyLast.outcome = "false" /\ ~verifyLast.request.asked
    ELSE /\ verifyLast.request =
              [asked |-> TRUE, tx |-> verifyLast.tx, hash |-> verifyLast.hash]
         /\ IF verifyLast.anchorUp
            THEN verifyLast.outcome =
                   (IF verifyLast.answer THEN "true" ELSE "false")
            ELSE verifyLast.outcome = "AnchorError"

\* verifyEntry of an anchored entry met an unreachable anchor.
C17_AnchoredEntryAnchorDown ==
  verifyLast.found /\ verifyLast.tx # 0 /\ verifyLast.outcome = "AnchorError"

\* C18: an audit entry never changes after creation except in its
\* anchoring fields, and those change one way only: verified never goes
\* from true back to false, and a blockchainTxId that is set is never
\* replaced by a different value, whatever the interleaving of log() calls.
C18_EntriesImmutableAnchoringMonotone ==
  [][\A i \in 1..Len(entries) :
       /\ i <= Len(entries')
       /\ entries'[i].id = entries[i].id
       /\ entries'[i].userId = entries[i].userId
       /\ entries'[i].action = entries[i].action
       /\ entries'[i].timestamp = entries[i].timestamp
       /\ entries[i].verified => entries'[i].verified
       /\ entries[i].blockchainTxId # 0
            => entries'[i].blockchainTxId = entries[i].blockchainTxId]_vars

\* Two entries have been anchored, by different transactions.
C18_TwoEntriesAnchored ==
  \E i, j \in 1..Len(entries) :
    /\ entries[i].verified /\ entries[j].verified
    /\ entries[i].blockchainTxId # 0 /\ entries[j].blockchainTxId # 0
    /\ entries[i].blockchainTxId # entries[j].blockchainTxId

\* The subscribers _notifyClients is to reach for an entry: connected,
\* OPEN, and with no filter or a filter the entry matches.
Subscribed(entry) ==
  {wssClients[k] : k \in {n \in 1..Len(wssClients) : Wants(wssClients[n], entry)}}

\* C19: for each entry created by log() notification runs exactly once,
\* after the entry is persisted: when the log() call of entry i is over,
\* the entry has been sent to every OPEN subscriber whose filter matches it
\* and to no other.
C19_EveryEntryNotifiedOnce ==
  [][\A i \in 1..Len(calls) :
       (calls[i].pc \in Running /\ calls'[i].pc \notin Running) =>
         /\ lastNotify'.entry = i
         /\ lastNotify' # lastNotify
         /\ lastNotify'.sent = Subscribed(entries[i])]_vars

\* C20: log() waits only for the entry to be persisted: every call
\* returns (or fails) without waiting for submitAuditBatch to settle, so an
\* anchor that never answers blocks no log() call.
C20_LogNeverWaitsForAnchor ==
  \A i \in 1..MaxEntries :
    (i <= Len(calls)) ~> (i <= Len(calls) /\ calls[i].pc \notin Running)

\* ---- the ledger under one caller that awaits each log() before the
\* next, the anchor always reachable
InitAuditSeq == InitAudit /\ anchorUp = TRUE

NextAuditSeq ==
  \/ (InFlight = {} /\ LogCreate("dr.smith", NextSerial))
  \/ \E i \in 1..MaxEntries : HookRead(i, {})
  \/ \E i \in 1..MaxEntries : HookCheck(i, {})
  \/ \E i \in 1..MaxEntries : AnchorRespond(i)
  \/ \E i \in 1..MaxEntries : UpdateApply(i)
  \/ \E i \in 1..MaxEntries : HookUpdate(i, {})
  \/ Tick

SpecAuditSeq == InitAuditSeq /\ [][NextAuditSeq]_vars

\* C21: with the anchor reachable, once the unanchored entries number
\* BatchThreshold one batch holding all of them is formed: after
\* BatchThreshold log() calls made one after the other within the batch
\* age limit, when the last call is over, all the entries are verified and
\* carry the transaction of one and the same submission.
C21_ThresholdBatchAnchorsAll ==
  (/\ Len(entries) = BatchThreshold
   /\ InFlight = {}
   /\ now - entries[1].timestamp <= BatchMaxAgeMs)
  => /\ Len(submitted) = 1
     /\ \A j \in 1..Len(entries) :
          /\ entries[j].verified
          /\ entries[j].blockchainTxId # 0
          /\ entries[j].blockchainTxId = entries[1].blockchainTxId

\* C25: generateKey is all-or-nothing for the cache: once no generateKey
\* (direct or inside rotateKey) is running for a key id, keyCache holds a
\* private key for that id only if the key's metadata is stored, so a
\* generateKey that failed leaves nothing in the cache for getPrivateKey
\* to serve.
C25_CacheOnlyForStoredKeys ==
  \A k \in KeyIds :
    (/\ keyCache[k].has
     /\ ~\E c \in kmsCalls :
          \/ (c.op = "generateKey" /\ c.keyId = k)
          \/ (c.op = "rotateKey" /\ c.newKey = k))
    => devices[k].stored

\* C22: no partial commit on anchoring.  A row changes only in the update
\* of a call whose submission returned a transaction, only if the row was
\* in the batch that call read and submitted, and it then carries that
\* transaction; a submission that fails changes no row; hence an entry is
\* verified only if a submission that listed it returned successfully, and
\* an entry created after the batch was read is not marked by its commit.
C22_NoPartialCommit ==
  [][/\ \A j \in 1..Len(entries) :
          entries'[j] # entries[j] =>
            \E i \in 1..Len(calls) :
              /\ calls[i].pc = "update" /\ calls'[i].pc # "update"
              /\ calls[i].tx # 0
              /\ entries[j].id \in SeqRange(BatchIds(calls[i].batch))
              /\ \E n \in 1..Len(submitted) :
                   /\ submitted[n].by = i
                   /\ entries[j].id \in SeqRange(submitted[n].entries)
              /\ entries'[j] = [entries[j] EXCEPT !.verified = TRUE,
                                                  !.blockchainTxId = calls[i].tx]
     /\ (\E i \in 1..Len(calls) :
           calls[i].pc = "submit" /\ calls'[i].pc = "AnchorError")
        => SubSeq(entries', 1, Len(entries)) = entries
     /\ \A j \in 1..Len(entries') :
          entries'[j].verified =>
            \E n \in 1..Len(submitted') :
              /\ entries'[j].id \in SeqRange(submitted'[n].entries)
              /\ calls'[submitted'[n].by].tx # 0
              /\ calls'[submitted'[n].by].tx = entries'[j].blockchainTxId]_vars

\* a batch was committed while a later entry, created after the batch was
\* read, stays unverified, and another submission has failed
C22_CommitBesideFailedSubmission ==
  \E i, j, f \in 1..Len(entries) :
    /\ i < j
    /\ entries[i].verified /\ calls[i].pc = "ok"
    /\ ~entries[j].verified /\ entries[j].timestamp = entries[i].timestamp
    /\ calls[f].pc = "AnchorError" /\ ~entries[f].verified

\* C23: private key material lives only in keyCache.  No record the
\* service hands to the blockchain, the audit log or the FHIR server has a
\* private-key field, and no stored Device has one; getPrivateKey answers
\* from the cache only with an entry whose expiresAt is still ahead, and a
\* getPrivateKey that finds an expired entry deletes it and goes on to the
\* metadata search, the status check and the vault.
C23_PrivateKeyOnlyInFreshCache ==
  [][/\ \A w \in handed' : "privateKey" \notin w.fields
     /\ \A k \in KeyIds :
          devices'[k].stored => "privateKey" \notin devices'[k].items
     /\ (/\ kmsLast' # kmsLast
         /\ kmsLast'.op = "getPrivateKey" /\ kmsLast'.result = "privateKey"
         /\ kmsCalls' = kmsCalls)
        => /\ keyCache[kmsLast'.keyId].has
           /\ now < keyCache[kmsLast'.keyId].expiresAt
     /\ \A k \in KeyIds :
          (/\ keyCache[k].has /\ now >= keyCache[k].expiresAt
           /\ \E c \in kmsCalls' \ kmsCalls :
                c.op = "getPrivateKey" /\ c.keyId = k /\ c.pc = "search")
          => /\ ~keyCache'[k].has
             /\ kmsLast' = kmsLast]_vars

\* a key fetched again after its cache entry had expired: the entry now in
\* the cache is the re-fetched one
C23_RefetchedAfterExpiry ==
  \E k \in KeyIds :
    /\ kmsLast.op = "getPrivateKey" /\ kmsLast.keyId = k
    /\ kmsLast.result = "privateKey"
    /\ now >= GenerateCacheMs
    /\ devices[k].stored
    /\ keyCache[k].has /\ keyCache[k].expiresAt = now + RefetchCacheMs
    /\ \E w \in handed : w.sink = "fhir"
    /\ \E w \in handed : w.sink = "blockchain"
    /\ \E w \in handed : w.sink = "audit"

\* C30: a subscriber's filter is exactly the filter of its most recent
\* SUBSCRIBE message: a later SUBSCRIBE replaces the earlier filter, a
\* message of another type leaves it as it is, and an OPEN client that has
\* never subscribed is sent every entry whose log() call comes to its end
\* (a client whose own send() threw apart).
C30_FilterIsLastSubscribe ==
  [][/\ \A c \in Clients : filters'[c] = subscribed'[c].filters
     /\ \A c \in Clients :
          subscribed'[c] = subscribed[c] => filters'[c] = filters[c]
     /\ \A i \in 1..Len(calls) :
          (calls[i].pc \in Running /\ calls'[i].pc \in {"ok", "SendError"}) =>
            \A k \in 1..Len(wssClients) :
              (/\ readyState[wssClients[k]] = "OPEN"
               /\ subscribed[wssClients[k]].count = 0)
              => wssClients[k] \in lastNotify'.sent \cup lastNotify'.failed]_vars

\* ---- the GCM service: keys rotated while encrypt calls are under way
InitAesRotate == InitAes

NextAesRotate ==
  \/ AesGenerateKey("patient-data", "42")
  \/ \E c \in aesCalls, ok \in BOOLEAN : AesGenerateReturn(c, ok)
  \/ \E k \in AesKeyIds : AesRotateBegin(k)
  \/ \E c \in aesCalls : AesRotateMark(c)
  \/ \E c \in aesCalls : AesRotateNew(c)
  \/ \E p \in PlainTexts, k \in AesKeyIds, n \in ChunkLens :
       AesBegin("encrypt", p, NoEnvelope,
                [plaintext |-> p, keyId |-> k, ctx |-> NoContext], k,
                NoContext, n)
  \/ \E c \in aesCalls, ivs \in [1..MaxPlainLen -> IvSpace] : AesBody(c, ivs)
  \/ \E c \in aesCalls : AesReturn(c)
  \/ Tick

SpecAesRotate == InitAesRotate /\ [][NextAesRotate]_vars

\* C24: once rotateKey(k) has marked k's registry record deprecated the
\* record stays deprecated, whatever encrypt and decrypt calls on k are
\* under way: no step takes the deprecated status off a record.
C24_DeprecatedStaysDeprecated ==
  [][\A k \in AesKeyIds :
       keyRegistry[k].status = "deprecated" =>
         keyRegistry'[k].status = "deprecated"]_vars

\* C13: after rotateKey(k1) has returned the successor, k1's status is
\* deprecated, and encrypt and decrypt still obtain key material for k1
\* (the registry has no revocation).
C13_DeprecatedKeyStillUsable ==
  [][/\ (aesLast'.op = "rotateKey" /\ aesLast'.ok)
          => keyRegistry'[aesLast'.keyId].status = "deprecated"
     /\ \A k \in AesKeyIds :
          (/\ keyRegistry[k].status = "deprecated"
           /\ aesLast' # aesLast
           /\ aesLast'.op \in {"encrypt", "decrypt"} /\ aesLast'.keyId = k)
          => aesLast'.error # "Invalid key ID"]_vars

\* ---- the key management service with the emergency override
JustificationLengths == {EmergencyMinLength, EmergencyMinLength + 1}

InitEmergency == InitIds

NextEmergency ==
  \/ GenBegin("data-encryption", "Patient/42")
  \/ \E c \in kmsCalls, ok \in BOOLEAN : GenVault(c, ok)
  \/ \E c \in kmsCalls, ok \in BOOLEAN : GenChain(c, ok)
  \/ \E c \in kmsCalls, ok \in BOOLEAN : GenAudit(c, ok)
  \/ \E c \in kmsCalls, ok \in BOOLEAN : GenStore(c, ok)
  \/ \E c \in kmsCalls : GenReturn(c)
  \/ \E c \in kmsCalls : FhirSearch(c)
  \/ \E k \in KeyIds : GetBegin(k)
  \/ \E c \in kmsCalls : GetMeta(c)
  \/ \E c \in kmsCalls, ok \in BOOLEAN : GetVault(c, ok)
  \/ \E k \in KeyIds, n \in JustificationLengths : EmergBegin(k, n)
  \/ \E c \in kmsCalls, ok \in BOOLEAN : EmergVault(c, ok)
  \/ \E c \in kmsCalls, ok \in BOOLEAN : EmergAudit(c, ok)
  \/ \E c \in kmsCalls, ok \in BOOLEAN : EmergChain(c, ok)
  \/ Tick

SpecEmergency == InitEmergency /\ [][NextEmergency]_vars

\* emergencyKeyOverride returns key material only from a call whose
\* justification passed the check and whose audit record was written, at
\* the moment the blockchain record is written
C26_ReturnsAfterCheckAndRecords ==
  emergency'.returned # emergency.returned =>
    /\ emergency'.chained = emergency.chained + 1
    /\ \E c \in kmsCalls :
         /\ Ended(c)
         /\ c.op = "emergencyKeyOverride" /\ c.audited
         /\ c.length > EmergencyMinLength
         /\ [sink |-> "audit", fields |-> EmergencyAuditFields] \in handed
         /\ [sink |-> "blockchain", fields |-> EmergencyChainFields] \in handed
         /\ kmsLast' = [op |-> c.op, keyId |-> c.keyId,
                        result |-> "privateKey"]
\* a call whose justification check fails retrieves nothing, records nothing
C26_DeniedDoesNothing ==
  (/\ emergency'.begun # emergency.begun
   /\ kmsLast'.result = "Emergency access denied"
   /\ kmsCalls' = kmsCalls)
  => /\ emergency' = [emergency EXCEPT !.begun = @ + 1]
     /\ handed' = handed
\* the override reads no key metadata: its calls never wait for a
\* fhir.search, and the stored metadata has no part in how they end
C26_NoStatusCheck ==
  \A c \in kmsCalls :
    c.op = "emergencyKeyOverride" => c.pc \in {"vault", "audit", "chain"}
\* a call that ends with key material for a key whose stored status is
\* revoked or retired is an emergencyKeyOverride call
C26_OnlyOverrideServesRevoked ==
  \A k \in KeyIds :
    (/\ devices[k].stored
     /\ ParsedStatus(devices[k]) \in {"revoked", "retired"}
     /\ kmsLast' # kmsLast
     /\ kmsLast'.keyId = k /\ kmsLast'.result = "privateKey")
    => kmsLast'.op = "emergencyKeyOverride"

InitMem == InitIds

NextMem ==
  \/ MemInitialize
  \/ \E old \in MemKeyIds \cup {MemUndefined} : MemRotateKey(old)
  \/ Tick

SpecMem == InitMem /\ [][NextMem]_vars

\* C29: every rotateKey call of the in-memory service adds exactly one new
\* key, under a keyId that no earlier call returned and that held no key,
\* also when calls fall into the same millisecond; when rotateKey(old)
\* returns, getKey(old) is undefined, getKey(newKeyId) is the returned key
\* and all other stored keys are unchanged.
C29_RotateAddsOneFreshKey ==
  [][memReturned' # memReturned \/ memLast' # memLast =>
       /\ memLast'.keyId \notin memReturned
       /\ memKeys[memLast'.keyId] = 0
       /\ memKeys'[memLast'.keyId] = memLast'.key
       /\ memLast'.oldKeyId # MemUndefined => memKeys'[memLast'.oldKeyId] = 0
       /\ \A id \in MemKeyIds \ {memLast'.keyId, memLast'.oldKeyId} :
            memKeys'[id] = memKeys[id]]_vars

\* ---- the GCM service protecting FHIR resources
InitAesResource == InitAes

NextAesResource ==
  \/ AesGenerateKey("patient-data", "42")
  \/ \E c \in aesCalls, ok \in BOOLEAN : AesGenerateReturn(c, ok)
  \/ \E p \in PlainTexts, k \in AesKeyIds, x \in Contexts, n \in ChunkLens :
       AesBegin("encrypt", p, NoEnvelope,
                [plaintext |-> p, keyId |-> k, ctx |-> x], k, x, n)
  \/ \E r \in Resources, t \in ResourceTypes, k \in AesKeyIds :
       AesBegin("encryptResource", JsonStringify(r), NoEnvelope,
                [plaintext |-> JsonStringify(r), keyId |-> k,
                 ctx |-> EncryptResourceContext(t)],
                k, EncryptResourceContext(t), ResourceChunkLen)
  \/ \E k \in AesKeyIds :
       /\ aesEnvelope.made
       /\ AesBegin("decryptResource", <<>>, aesEnvelope.envelope,
                   aesEnvelope.origin, k,
                   DecryptResourceContext(aesEnvelope.envelope), 1)
  \/ \E c \in aesCalls, ivs \in [1..MaxPlainLen -> IvSpace] : AesBody(c, ivs)
  \/ \E c \in aesCalls : AesReturn(c)

SpecAesResource == InitAesResource /\ [][NextAesResource]_vars

\* C27: for every resource and registered key encryptResource completes,
\* and decryptResource of what it returned, under the same key, returns
\* the original resource: the context data decryptResource binds is the
\* context data encryptResource bound.
C27_ResourceRoundTrip ==
  /\ (aesLast.op = "encryptResource" /\ aesLast.error # "Invalid key ID")
       => aesLast.ok
  /\ (/\ aesLast.op = "decryptResource"
      /\ aesLast.keyId = aesLast.origin.keyId
      /\ aesLast.origin.plaintext \in {JsonStringify(r) : r \in Resources})
       => /\ aesLast.ok
          /\ aesLast.ctx = aesLast.origin.ctx
          /\ JsonParse(aesLast.outText).ok
          /\ JsonStringify(JsonParse(aesLast.outText).value)
               = aesLast.origin.plaintext

\* ---- decrypt of the GCM service on envelopes of several chunks.  What
\* decrypt is given is its caller's: an array of chunk records {data, iv,
\* tag, chunkInfo}.  generateKey returns the key to its caller (line 541),
\* so chunk records sealed under a registered key exist outside encrypt.

\* A chunk record that the loop body of decrypt accepts for the piece pt
\* under context ctx: the tag is the one aes-256-gcm computes under key
\* and iv for the ciphertext and the associated data of chunkInfo.index.
SealedChunk(pt, key, iv, index, total, ctx) ==
  LET ct == GcmCiphertext(key, iv, pt)
  IN [data |-> ct, tag |-> GcmTag(key, iv, Aad(index, ctx), ct), iv |-> iv,
      chunkInfo |-> [index |-> index, total |-> total]]

\* The envelope of a text cut into chunks of one character: chunk k sealed
\* with index k - 1 under its own iv.
SealedEnvelope(data, key, ivs, ctx) ==
  [k \in 1..Len(data) |->
     SealedChunk(SubSeq(data, k, k), key, ivs[k], k - 1, Len(data), ctx)]

\* the envelope whole, and altered chunk-wise (each chunk keeps its own iv,
\* tag and chunkInfo)
RemoveChunk(q, i) == SubSeq(q, 1, i - 1) \o SubSeq(q, i + 1, Len(q))
DuplicateChunk(q, i) == SubSeq(q, 1, i) \o SubSeq(q, i, Len(q))
SwapChunks(q, i, j) ==
  [k \in 1..Len(q) |-> IF k = i THEN q[j] ELSE IF k = j THEN q[i] ELSE q[k]]

ChunkAlterations(q) ==
  {[kind |-> "intact", chunks |-> q]}
  \cup {[kind |-> "remove", chunks |-> RemoveChunk(q, i)] : i \in 1..Len(q)}
  \cup {[kind |-> "duplicate", chunks |-> DuplicateChunk(q, i)] : i \in 1..Len(q)}
  \cup {[kind |-> "swap", chunks |-> SwapChunks(q, ij[1], ij[2])] :
          ij \in {x \in (1..Len(q)) \X (1..Len(q)) : x[1] < x[2]}}

InitAesChunks == InitAes

NextAesChunks ==
  \/ AesGenerateKey("patient-data", "42")
  \/ \E c \in aesCalls, ok \in BOOLEAN : AesGenerateReturn(c, ok)
  \/ \E p \in PlainTexts, k, kd \in AesKeyIds, x \in {NoContext, "Patient"},
        ivs \in {<<"iv1", "iv2">>, <<"iv2", "iv2">>} :
       /\ Len(p) >= 2
       /\ \E a \in ChunkAlterations(SealedEnvelope(p, DerivedKey(k), ivs, x)) :
            AesBegin("decrypt", <<>>,
                     [isArray |-> TRUE, chunks |-> a.chunks],
                     [plaintext |-> p, keyId |-> k, ctx |-> x,
                      altered |-> a.kind],
                     kd, x, 1)
  \/ \E c \in aesCalls, ivs \in [1..MaxPlainLen -> IvSpace] : AesBody(c, ivs)
  \/ \E c \in aesCalls : AesReturn(c)

SpecAesChunks == InitAesChunks /\ [][NextAesChunks]_vars

====
